---------------------------- MODULE Spec2Model ----------------------------
(***************************************************************************)
(* State-machine model of the client-side vector search core:              *)
(*   - EmbeddingIndex (exact index, src/unnamed/part_005 "src/index.ts")   *)
(*   - ExperimentalHNSWIndex (src/unnamed/part_005 "src/hnsw.ts")          *)
(*   - EmbeddingGenerator (src/doc-generator/src/index.ts)                 *)
(*                                                                         *)
(* Conventions.                                                            *)
(*   * JavaScript arrays are TLA+ sequences; a JavaScript index i is the   *)
(*     TLA+ position i+1, and findIndex's -1 is position 0.                *)
(*   * A JavaScript object is a function from its own keys to values.      *)
(*   * A similarity is held in units of 10^-precision (the digits that     *)
(*     toFixed(precision) keeps), so 969231 stands for 0.969231.           *)
(***************************************************************************)
EXTENDS Integers, Sequences, FiniteSets, TLC

VARIABLES
    objects,    \* EmbeddingIndex.objects
    keys,       \* EmbeddingIndex.keys (Object.keys of the first object)
    last,       \* history: the last EmbeddingIndex call, its arguments,
                \* the state it started from and what it returned
    hnsw,       \* an ExperimentalHNSWIndex: its L, mL, efc and index
    hLast,      \* history: the last ExperimentalHNSWIndex call
    gen,        \* EmbeddingGenerator: its fields and the locals of the
                \* generateEmbeddings call in progress
    genLog,     \* history: the embedding-model calls and the delays so far
    val,        \* validateEmbeddings: its argument and what it returned
    idb,        \* the IndexedDB database: whether the object store exists
                \* and the records it holds, in key order
    task,       \* the IndexedDbManager call in progress: the callback it
                \* waits for, its locals and, once settled, its outcome
    cacheInstance,  \* the LRU cache of getEmbedding: text -> vector
    currentModel,   \* the model the pipeline was last initialized for
    eLast,      \* history: the last getEmbedding call
    cos,        \* history: the last cosineSimilarity call
    meta,       \* MetadataGenerator: the snapshots generated so far and
                \* the last comparison
    chunked,    \* history: the last createChunks call and what it returned
    pending     \* the getEmbedding calls in flight: for each, the await it
                \* is suspended at, its arguments and, once it has called
                \* the pipeline, the model of the pipeline it called

ixVars == <<objects, keys, last>>
hnVars == <<hnsw, hLast>>
genVars == <<gen, genLog>>
valVars == <<val>>
dbVars == <<idb, task>>
embVars == <<cacheInstance, currentModel, eLast>>
utilVars == <<cos, meta>>
moreVars == <<chunked, pending>>
vars == <<ixVars, hnVars, genVars, valVars, dbVars, embVars, utilVars, moreVars>>

\* the variables that the calls of one component leave alone
notIx == <<hnVars, genVars, valVars, dbVars, embVars, utilVars, moreVars>>
notHn == <<ixVars, genVars, valVars, dbVars, embVars, utilVars, moreVars>>
notGen == <<ixVars, hnVars, valVars, dbVars, embVars, utilVars, moreVars>>
notVal == <<ixVars, hnVars, genVars, dbVars, embVars, utilVars, moreVars>>
notDb == <<ixVars, hnVars, genVars, valVars, embVars, utilVars, moreVars>>
notEmb == <<ixVars, hnVars, genVars, valVars, dbVars, utilVars, moreVars>>
notUtil == <<ixVars, hnVars, genVars, valVars, dbVars, embVars, moreVars>>
notMore == <<ixVars, hnVars, genVars, valVars, dbVars, embVars, utilVars>>

\* the value of the variables of a component that a specification does not
\* exercise
Off == [op |-> "off"]

-----------------------------------------------------------------------------
(* Bounds of the model *)

MaxObjects == 3

-----------------------------------------------------------------------------
(* Generic helpers for JavaScript arrays *)

Range(s) == {s[i] : i \in 1..Len(s)}

\* Array.prototype.slice(0, n) for n >= 0
Slice0(s, n) == SubSeq(s, 1, IF n < Len(s) THEN n ELSE Len(s))

\* Array.prototype.splice(i, 1) at position i
RemoveAt(s, i) == SubSeq(s, 1, i - 1) \o SubSeq(s, i + 1, Len(s))

RECURSIVE Pow10(_)
Pow10(n) == IF n = 0 THEN 1 ELSE 10 * Pow10(n - 1)

-----------------------------------------------------------------------------
(* src/utils.ts : cosineSimilarity *)

\* Number.NaN as an embedding element (what isNaN() answers true for)
NaN == -999

RECURSIVE DotProduct(_, _)
DotProduct(vecA, vecB) ==
    IF vecA = <<>> THEN 0
    ELSE Head(vecA) * Head(vecB) + DotProduct(Tail(vecA), Tail(vecB))

\* Math.sqrt, exact on perfect squares; the vectors of the model all have an
\* integral magnitude, and TLC stops on any other argument.
Sqrt(n) == CHOOSE r \in 0..n : r * r = n

Magnitude(vec) == Sqrt(DotProduct(vec, vec))

\* Number.prototype.toFixed(precision) followed by parseFloat, of num/den
\* (den > 0): the nearest multiple of 10^-precision, the larger in magnitude
\* when two are equally near; the result is in units of 10^-precision.
ToFixed(num, den, precision) ==
    LET scaled == Pow10(precision) * (IF num < 0 THEN -num ELSE num)
        n      == (2 * scaled + den) \div (2 * den)
    IN  IF num < 0 THEN -n ELSE n

DefaultPrecision == 6

\* the guard of cosineSimilarity that throws "Vectors must have the same length"
CosineThrows(vecA, vecB) == Len(vecA) # Len(vecB)

\* mutant of cosineSimilarity: the dot product is divided by the squared
\* magnitude of vecA
cosineSimilarityProjection(vecA, vecB) ==
    LET dotProduct == DotProduct(vecA, vecB)
        magnitudeA == Magnitude(vecA)
        magnitudeB == Magnitude(vecB)
    IN  IF magnitudeA = 0 \/ magnitudeB = 0 THEN 0
        ELSE ToFixed(dotProduct, magnitudeA * magnitudeA, DefaultPrecision)

cosineSimilarity(vecA, vecB) ==
    LET dotProduct == DotProduct(vecA, vecB)
        magnitudeA == Magnitude(vecA)
        magnitudeB == Magnitude(vecB)
    IN  IF magnitudeA = 0 \/ magnitudeB = 0 THEN 0
        ELSE ToFixed(dotProduct, magnitudeA * magnitudeB, DefaultPrecision)

-----------------------------------------------------------------------------
(* cosineSimilarity called on its own *)

\* vectors of one, two and three dimensions with an integral magnitude, the
\* zero vectors among them
CosineVectors ==
    {<<5>>, <<0>>, <<-2>>,
     <<3, 4>>, <<4, 3>>, <<-3, 4>>, <<4, -3>>, <<0, 5>>, <<5, 12>>, <<-5, -12>>,
     <<6, 8>>, <<0, 0>>,
     <<1, 2, 2>>, <<2, 3, 6>>, <<0, 0, 0>>}

CosineInit ==
    /\ cos = [op |-> "none"]
    /\ meta = Off
    /\ chunked = Off /\ pending = Off
    /\ objects = Off /\ keys = Off /\ last = Off
    /\ hnsw = Off /\ hLast = Off
    /\ gen = [pc |-> "off"] /\ genLog = <<>>
    /\ val = Off
    /\ idb = Off /\ task = Off
    /\ cacheInstance = Off /\ currentModel = Off /\ eLast = Off

\* cosineSimilarity(vecA, vecB): it throws, or it returns the similarity
CosineSimilarity(vecA, vecB) ==
    /\ cos' = IF CosineThrows(vecA, vecB)
              THEN [op |-> "cosineSimilarity", vecA |-> vecA, vecB |-> vecB,
                    threw |-> TRUE, result |-> 0]
              ELSE [op |-> "cosineSimilarity", vecA |-> vecA, vecB |-> vecB,
                    threw |-> FALSE, result |-> cosineSimilarity(vecA, vecB)]
    /\ UNCHANGED <<meta, notUtil>>

CosineNext == \E vecA \in CosineVectors, vecB \in CosineVectors : CosineSimilarity(vecA, vecB)

\* the vector is all zeros
ZeroVector(v) == \A i \in 1..Len(v) : v[i] = 0

\* C28: cosineSimilarity is symmetric: for all vectors a and b of equal
\* length, cosineSimilarity(a, b) = cosineSimilarity(b, a), including the
\* cases where a or b has zero magnitude (both orders give 0).
C28_CosineSymmetric ==
    (cos.op = "cosineSimilarity" /\ Len(cos.vecA) = Len(cos.vecB))
    => /\ ~cos.threw
       /\ cos.result = cosineSimilarity(cos.vecB, cos.vecA)
       /\ (ZeroVector(cos.vecA) \/ ZeroVector(cos.vecB))
          => (cos.result = 0 /\ cosineSimilarity(cos.vecB, cos.vecA) = 0)

\* two vectors of different magnitudes that are neither parallel nor
\* orthogonal were compared: [3, 4] and [5, 12], similarity 0.969231
C28_Witness ==
    /\ cos.op = "cosineSimilarity"
    /\ cos.vecA = <<3, 4>>
    /\ cos.vecB = <<5, 12>>
    /\ ~cos.threw
    /\ cos.result = 969231

-----------------------------------------------------------------------------
(* src/index.ts : EmbeddingIndex *)

DEFAULT_TOP_K == 3

\* (object) => Object.keys(filter).every((key) => object[key] === filter[key])
MatchesFilter(object, filter) ==
    \A key \in DOMAIN filter : key \in DOMAIN object /\ object[key] = filter[key]

\* this.objects.filter((object) => Object.keys(filter).every(...))
RECURSIVE FilterObjects(_, _)
FilterObjects(objs, filter) ==
    IF objs = <<>> THEN <<>>
    ELSE IF MatchesFilter(Head(objs), filter)
         THEN <<Head(objs)>> \o FilterObjects(Tail(objs), filter)
         ELSE FilterObjects(Tail(objs), filter)

\* mutant of findVectorIndex: the position of the last match
findLastVectorIndex(objs, filter) ==
    IF \E i \in 1..Len(objs) : MatchesFilter(objs[i], filter)
    THEN CHOOSE i \in 1..Len(objs) :
            /\ MatchesFilter(objs[i], filter)
            /\ \A j \in (i + 1)..Len(objs) : ~MatchesFilter(objs[j], filter)
    ELSE 0

\* position of the first match, 0 when there is none (findIndex's -1)
findVectorIndex(objs, filter) ==
    IF \E i \in 1..Len(objs) : MatchesFilter(objs[i], filter)
    THEN CHOOSE i \in 1..Len(objs) :
            /\ MatchesFilter(objs[i], filter)
            /\ \A j \in 1..(i - 1) : ~MatchesFilter(objs[j], filter)
    ELSE 0

\* !Array.isArray(obj.embedding) || obj.embedding.some(isNaN)
BadEmbedding(obj) ==
    \/ "embedding" \notin DOMAIN obj
    \/ \E i \in 1..Len(obj.embedding) : obj.embedding[i] = NaN

\* mutant of validateAndAdd: an object that fails validation is dropped
\* without an error
validateAndAddSilently(objs, ks, obj) ==
    IF BadEmbedding(obj)
    THEN [threw |-> FALSE, objects |-> objs, keys |-> ks]
    ELSE IF ks = {}
    THEN [threw |-> FALSE, objects |-> Append(objs, obj), keys |-> DOMAIN obj]
    ELSE IF ~(\A key \in ks : key \in DOMAIN obj)
    THEN [threw |-> FALSE, objects |-> objs, keys |-> ks]
    ELSE [threw |-> FALSE, objects |-> Append(objs, obj), keys |-> ks]

\* validateAndAdd on the state (objs, ks): the state it leaves and whether
\* it threw.  Both throws come before any assignment.
validateAndAdd(objs, ks, obj) ==
    IF BadEmbedding(obj)
    THEN [threw |-> TRUE, objects |-> objs, keys |-> ks]
    ELSE IF ks = {}
    THEN [threw |-> FALSE, objects |-> Append(objs, obj), keys |-> DOMAIN obj]
    ELSE IF ~(\A key \in ks : key \in DOMAIN obj)
    THEN [threw |-> TRUE, objects |-> objs, keys |-> ks]
    ELSE [threw |-> FALSE, objects |-> Append(objs, obj), keys |-> ks]

\* initialObjects.forEach((obj) => this.validateAndAdd(obj))
RECURSIVE AddAll(_, _, _)
AddAll(objs, ks, initialObjects) ==
    IF initialObjects = <<>>
    THEN [threw |-> FALSE, objects |-> objs, keys |-> ks]
    ELSE LET r == validateAndAdd(objs, ks, Head(initialObjects))
         IN  IF r.threw THEN r
             ELSE AddAll(r.objects, r.keys, Tail(initialObjects))

\* new EmbeddingIndex(initialObjects)
Constructor(initialObjects) ==
    LET r == AddAll(<<>>, {}, initialObjects)
    IN  IF r.threw \/ initialObjects = <<>> THEN r
        ELSE [r EXCEPT !.keys = DOMAIN initialObjects[1]]

\* mutant of update: the vector is validated and pushed before the record
\* is looked up
updateValidateFirst(objs, ks, filter, vector) ==
    LET r == validateAndAdd(objs, ks, vector)
        index == findVectorIndex(objs, filter)
    IN  IF r.threw THEN r
        ELSE IF index = 0 THEN [r EXCEPT !.threw = TRUE]
        ELSE [r EXCEPT !.objects[index] = vector]

\* update(filter, vector)
update(objs, ks, filter, vector) ==
    LET index == findVectorIndex(objs, filter)
    IN  IF index = 0
        THEN [threw |-> TRUE, objects |-> objs, keys |-> ks]
        ELSE LET r == validateAndAdd(objs, ks, vector)
             IN  IF r.threw THEN r
                 ELSE [r EXCEPT !.objects[index] = vector]

\* remove(filter)
remove(objs, ks, filter) ==
    LET index == findVectorIndex(objs, filter)
    IN  IF index = 0
        THEN [threw |-> TRUE, objects |-> objs, keys |-> ks]
        ELSE [threw |-> FALSE, objects |-> RemoveAt(objs, index), keys |-> ks]

\* mutant of removeBatch: every record matching a filter is removed
RECURSIVE removeBatchAll(_, _)
removeBatchAll(objs, filters) ==
    IF filters = <<>> THEN objs
    ELSE LET index == findVectorIndex(objs, Head(filters))
         IN  IF index # 0
             THEN removeBatchAll(RemoveAt(objs, index), filters)
             ELSE removeBatchAll(objs, Tail(filters))

\* removeBatch(filters)
RECURSIVE removeBatch(_, _)
removeBatch(objs, filters) ==
    IF filters = <<>> THEN objs
    ELSE LET index == findVectorIndex(objs, Head(filters))
         IN  removeBatch(IF index # 0 THEN RemoveAt(objs, index) ELSE objs,
                         Tail(filters))

\* get(filter): the first match, or null (here <<>>, a value no object equals)
get(objs, filter) ==
    LET index == findVectorIndex(objs, filter)
    IN  IF index = 0 THEN <<>> ELSE objs[index]

\* Array.prototype.sort((a, b) => b.similarity - a.similarity): stable, so an
\* element goes after the elements of equal similarity that precede it
RECURSIVE InsertDesc(_, _)
InsertDesc(sorted, e) ==
    IF sorted = <<>> THEN <<e>>
    ELSE IF Head(sorted).similarity >= e.similarity
         THEN <<Head(sorted)>> \o InsertDesc(Tail(sorted), e)
         ELSE <<e>> \o sorted

RECURSIVE SortDesc(_)
SortDesc(s) ==
    IF s = <<>> THEN <<>>
    ELSE InsertDesc(SortDesc(SubSeq(s, 1, Len(s) - 1)), s[Len(s)])

\* options.topK || DEFAULT_TOP_K
TopKOf(options) ==
    IF "topK" \in DOMAIN options /\ options.topK # 0
    THEN options.topK ELSE DEFAULT_TOP_K

\* options.filter || {}
FilterOf(options) ==
    IF "filter" \in DOMAIN options THEN options.filter ELSE <<>>

\* mutant of search: records whose embedding has another length than the
\* query are left out instead of failing the call
searchSkippingMismatched(objs, queryEmbedding, options) ==
    LET topK   == TopKOf(options)
        filter == FilterOf(options)
        candidates == FilterObjects(objs, filter)
        comparable == SelectSeq(candidates,
                         LAMBDA c : ~CosineThrows(queryEmbedding, c.embedding))
        similarities ==
            [i \in 1..Len(comparable) |->
                [similarity |-> cosineSimilarity(queryEmbedding,
                                                 comparable[i].embedding),
                 object |-> comparable[i]]]
    IN  [threw |-> FALSE, result |-> Slice0(SortDesc(similarities), topK)]

\* search(queryEmbedding, options), useStorage "none"
search(objs, queryEmbedding, options) ==
    LET topK   == TopKOf(options)
        filter == FilterOf(options)
        candidates == FilterObjects(objs, filter)
    IN  IF \E i \in 1..Len(candidates) :
              CosineThrows(queryEmbedding, candidates[i].embedding)
        THEN [threw |-> TRUE, result |-> <<>>]
        ELSE LET similarities ==
                   [i \in 1..Len(candidates) |->
                       [similarity |-> cosineSimilarity(queryEmbedding,
                                                        candidates[i].embedding),
                        object |-> candidates[i]]]
             IN  [threw |-> FALSE,
                  result |-> Slice0(SortDesc(similarities), topK)]


-----------------------------------------------------------------------------
(* Inputs of the EmbeddingIndex model *)

\* embeddings with an integral magnitude (5, 13, 0)
Embeddings == {<<3, 4>>, <<5, 12>>, <<0, 0>>}

\* objects offered to the constructor, add and update: well-formed ones, one
\* with an extra key, one with a missing key, one without an embedding, one
\* whose embedding holds NaN and one whose embedding has another length
InputObjects ==
    {[id |-> i, embedding |-> e] : i \in {1, 2}, e \in Embeddings}
    \cup {[id |-> 1, embedding |-> <<3, 4>>, tag |-> 7],
          [embedding |-> <<5, 12>>],
          [id |-> 2],
          [id |-> 2, embedding |-> <<NaN, 4>>],
          [id |-> 2, embedding |-> <<5>>]}

Filters == {<<>>, [id |-> 1], [id |-> 2], [id |-> 1, tag |-> 7]}

\* query vectors; <<5>> has another length than every stored embedding
Queries == {<<3, 4>>, <<4, -3>>, <<0, 0>>, <<5>>}

MaxTopK == 2

SearchOptions ==
    {<<>>} \cup {[topK |-> k] : k \in 0..MaxTopK}
    \cup {[topK |-> k, filter |-> f] : k \in 0..MaxTopK, f \in {[id |-> 1], [id |-> 1, tag |-> 7]}}
    \cup {[filter |-> [id |-> 2]]}

BatchFilters ==
    {<<f>> : f \in {[id |-> 1], [id |-> 2]}}
    \cup {<<f, g>> : f \in {[id |-> 1], [id |-> 2]}, g \in {[id |-> 1], [tag |-> 7]}}

InitialLists ==
    {<<>>} \cup {<<o>> : o \in InputObjects}
    \cup {<<o, p>> : o \in InputObjects, p \in InputObjects}

-----------------------------------------------------------------------------
(* EmbeddingIndex: the state machine *)

\* the state after new EmbeddingIndex(initialObjects), for every list the
\* constructor accepts
IndexInit ==
    \E initialObjects \in InitialLists :
        LET r == Constructor(initialObjects)
        IN  /\ ~r.threw
            /\ objects = r.objects
            /\ keys = r.keys
            /\ last = [op |-> "constructor", initialObjects |-> initialObjects]
            /\ hnsw = Off /\ hLast = Off
            /\ gen = [pc |-> "off"] /\ genLog = <<>>
            /\ val = Off
            /\ idb = Off /\ task = Off
            /\ cacheInstance = Off /\ currentModel = Off /\ eLast = Off
            /\ cos = Off /\ meta = Off
            /\ chunked = Off /\ pending = Off

\* no call is in progress and the result of the last one has been taken
Idle == last.op = "none"

\* the caller takes the result of the call that has returned
Return ==
    /\ ~Idle
    /\ last' = [op |-> "none"]
    /\ UNCHANGED <<objects, keys>>
    /\ UNCHANGED notIx

Add(obj) ==
    /\ Idle
    /\ Len(objects) < MaxObjects
    /\ LET r == validateAndAdd(objects, keys, obj)
       IN  /\ objects' = r.objects
           /\ keys' = r.keys
           /\ last' = [op |-> "add", pre |-> objects, preKeys |-> keys,
                       obj |-> obj, threw |-> r.threw]
    /\ UNCHANGED notIx

Update(filter, obj) ==
    /\ Idle
    /\ Len(objects) < MaxObjects
    /\ LET r == update(objects, keys, filter, obj)
       IN  /\ objects' = r.objects
           /\ keys' = r.keys
           /\ last' = [op |-> "update", pre |-> objects, preKeys |-> keys,
                       filter |-> filter, obj |-> obj, threw |-> r.threw]
    /\ UNCHANGED notIx

Remove(filter) ==
    LET r == remove(objects, keys, filter)
    IN  /\ Idle
        /\ objects' = r.objects
        /\ keys' = r.keys
        /\ last' = [op |-> "remove", pre |-> objects, preKeys |-> keys,
                    filter |-> filter, threw |-> r.threw]
        /\ UNCHANGED notIx

RemoveBatch(filters) ==
    /\ Idle
    /\ objects' = removeBatch(objects, filters)
    /\ keys' = keys
    /\ last' = [op |-> "removeBatch", pre |-> objects, preKeys |-> keys,
                filters |-> filters, threw |-> FALSE]
    /\ UNCHANGED notIx

Get(filter) ==
    /\ Idle
    /\ UNCHANGED <<objects, keys>>
    /\ last' = [op |-> "get", pre |-> objects, preKeys |-> keys,
                filter |-> filter, threw |-> FALSE,
                result |-> get(objects, filter)]
    /\ UNCHANGED notIx

\* clear(): this.objects = [] (this.keys is kept)
Clear ==
    /\ Idle
    /\ objects' = <<>>
    /\ keys' = keys
    /\ last' = [op |-> "clear", pre |-> objects, preKeys |-> keys,
                threw |-> FALSE]
    /\ UNCHANGED notIx

Search(queryEmbedding, options) ==
    LET r == search(objects, queryEmbedding, options)
    IN  /\ Idle
        /\ UNCHANGED <<objects, keys>>
        /\ last' = [op |-> "search", pre |-> objects, preKeys |-> keys,
                    queryEmbedding |-> queryEmbedding, options |-> options,
                    threw |-> r.threw, result |-> r.result]
        /\ UNCHANGED notIx

IndexNext ==
    \/ Return
    \/ \E obj \in InputObjects : Add(obj)
    \/ \E filter \in Filters, obj \in InputObjects : Update(filter, obj)
    \/ \E filter \in Filters : Remove(filter)
    \/ \E filters \in BatchFilters : RemoveBatch(filters)
    \/ \E filter \in Filters : Get(filter)
    \/ Clear
    \/ \E queryEmbedding \in Queries, options \in SearchOptions :
          Search(queryEmbedding, options)

\* the calls of the claim about the key set: constructor, add and update
IndexNextAU ==
    \/ Return
    \/ \E obj \in InputObjects : Add(obj)
    \/ \E filter \in Filters, obj \in InputObjects : Update(filter, obj)

-----------------------------------------------------------------------------
(* Claims about EmbeddingIndex *)

\* position of the first record of objs that equals filter on every filter
\* key, 0 when there is none (stated without findVectorIndex)
FirstMatch(objs, filter) ==
    LET hits == {i \in 1..Len(objs) :
                    \A k \in DOMAIN filter :
                        k \in DOMAIN objs[i] /\ objs[i][k] = filter[k]}
    IN  IF hits = {} THEN 0 ELSE CHOOSE i \in hits : \A j \in hits : i <= j

\* obj passes validation against the fixed key set ks
PassesValidation(obj, ks) ==
    /\ "embedding" \in DOMAIN obj
    /\ \A i \in 1..Len(obj.embedding) : obj.embedding[i] # NaN
    /\ ks # {} => DOMAIN obj = ks

\* C1: update(filter, obj), when some record matches filter and obj passes
\* validation, replaces exactly the first matching record with obj and
\* leaves size() and every other record unchanged.
C1_UpdateReplacesFirstMatch ==
    (/\ last.op = "update"
     /\ FirstMatch(last.pre, last.filter) # 0
     /\ PassesValidation(last.obj, last.preKeys))
    => /\ ~last.threw
       /\ Len(objects) = Len(last.pre)
       /\ objects = [last.pre EXCEPT ![FirstMatch(last.pre, last.filter)] = last.obj]

\* the list is non-increasing by similarity
NonIncreasing(result) ==
    \A i \in 1..(Len(result) - 1) : result[i].similarity >= result[i + 1].similarity

\* C8: search(q, {topK: k}) returns at most k results for every non-negative
\* integer k, and the similarities of the returned list are non-increasing.
C8_SearchAtMostTopK ==
    (last.op = "search" /\ ~last.threw /\ "topK" \in DOMAIN last.options)
    => /\ Len(last.result) <= last.options.topK
       /\ NonIncreasing(last.result)

\* the reference list of C9: the records of objs that equal filter on every
\* filter key, by descending similarity to q, equal similarities in
\* insertion order
ReferenceList(objs, q, filter) ==
    LET hits == {i \in 1..Len(objs) :
                    \A k \in DOMAIN filter :
                        k \in DOMAIN objs[i] /\ objs[i][k] = filter[k]}
        sim(i) == cosineSimilarity(q, objs[i].embedding)
        rank(i) == 1 + Cardinality({j \in hits :
                          sim(j) > sim(i) \/ (sim(j) = sim(i) /\ j < i)})
    IN  [r \in 1..Cardinality(hits) |->
            LET i == CHOOSE i \in hits : rank(i) = r
            IN  [similarity |-> sim(i), object |-> objs[i]]]

\* C9: in-memory search(q, {topK, filter}) returns exactly the first topK
\* elements of the reference list (records equal to the filter on every
\* filter key, by descending cosine similarity, 0 when a magnitude is 0, ties
\* in insertion order); an empty index gives an empty list; the index is not
\* modified.  (Stated for queries of the records' length.)
C9_SearchIsReferenceTopK ==
    (/\ last.op = "search"
     /\ "topK" \in DOMAIN last.options
     /\ \A i \in 1..Len(last.pre) :
            Len(last.pre[i].embedding) = Len(last.queryEmbedding))
    => /\ ~last.threw
       /\ last.result =
             Slice0(ReferenceList(last.pre, last.queryEmbedding,
                                  FilterOf(last.options)),
                    last.options.topK)
       /\ (last.pre = <<>> => last.result = <<>>)
       /\ objects = last.pre /\ keys = last.preKeys

\* C10: after any sequence of constructor, add and update calls every stored
\* object has exactly the key set of the first inserted object (held in
\* keys); add or update with an object whose key set differs from it is
\* rejected with an error.
C10_IdenticalKeySets ==
    /\ \A i \in 1..Len(objects) : DOMAIN objects[i] = keys
    /\ (/\ last.op \in {"add", "update"}
        /\ last.preKeys # {}
        /\ DOMAIN last.obj # last.preKeys
        /\ (last.op = "update" => FirstMatch(last.pre, last.filter) # 0))
       => (last.threw /\ objects = last.pre)

\* C11: after any sequence of constructor, add and update calls all stored
\* embeddings have the same length D and contain only finite numbers; an
\* insertion that would break this (an embedding of another length than the
\* stored ones, or one holding NaN) is rejected.
C11_EmbeddingsSameLengthFinite ==
    /\ \A i, j \in 1..Len(objects) :
          Len(objects[i].embedding) = Len(objects[j].embedding)
    /\ \A i \in 1..Len(objects) :
          \A k \in 1..Len(objects[i].embedding) : objects[i].embedding[k] # NaN
    /\ (/\ last.op \in {"add", "update"}
        /\ last.pre # <<>>
        /\ "embedding" \in DOMAIN last.obj
        /\ (last.op = "update" => FirstMatch(last.pre, last.filter) # 0)
        /\ \/ Len(last.obj.embedding) # Len(last.pre[1].embedding)
           \/ \E k \in 1..Len(last.obj.embedding) : last.obj.embedding[k] = NaN)
       => (last.threw /\ objects = last.pre)

\* C20: remove(filter), when at least one record matches, deletes exactly
\* the first record in insertion order whose fields equal the filter value
\* for every filter key, decreases size() by one and preserves the relative
\* order of all other records.
C20_RemoveDeletesFirstMatch ==
    (last.op = "remove" /\ FirstMatch(last.pre, last.filter) # 0)
    => LET m == FirstMatch(last.pre, last.filter)
       IN  /\ ~last.threw
           /\ Len(objects) = Len(last.pre) - 1
           /\ objects = [i \in 1..(Len(last.pre) - 1) |->
                            IF i < m THEN last.pre[i] ELSE last.pre[i + 1]]
           /\ keys = last.preKeys

\* of three records, the second and the third matched the filter and the
\* second was removed
C20_Witness ==
    /\ last.op = "remove"
    /\ Len(last.pre) = 3
    /\ DOMAIN last.filter # {}
    /\ FirstMatch(last.pre, last.filter) = 2
    /\ MatchesFilter(last.pre[3], last.filter)
    /\ last.pre[2] # last.pre[3]
    /\ objects = <<last.pre[1], last.pre[3]>>

\* C21: update(filter, obj) and remove(filter) with no matching record throw
\* (the not-found error comes before any validation or assignment) and leave
\* the records, their order and the fixed key set unchanged.
C21_NotFoundLeavesIndexUnchanged ==
    (last.op \in {"update", "remove"} /\ FirstMatch(last.pre, last.filter) = 0)
    => /\ last.threw
       /\ objects = last.pre
       /\ keys = last.preKeys

\* update was called on an index of two records with a filter that matches
\* neither and an object that would pass validation
C21_Witness ==
    /\ last.op = "update"
    /\ Len(last.pre) = 2
    /\ FirstMatch(last.pre, last.filter) = 0
    /\ PassesValidation(last.obj, last.preKeys)
    /\ last.threw
    /\ objects = last.pre

\* remove(f) for each filter f of the list in order, a not-found error
\* being ignored
RECURSIVE RemoveEachIgnoringNotFound(_, _, _)
RemoveEachIgnoringNotFound(objs, ks, filters) ==
    IF filters = <<>> THEN objs
    ELSE RemoveEachIgnoringNotFound(remove(objs, ks, Head(filters)).objects,
                                    ks, Tail(filters))

\* C22: removeBatch(filters) never throws and leaves the index in the state
\* reached by remove(f) for each filter f in list order with every not-found
\* error ignored; a filter listed twice removes the first two matching
\* records.
C22_RemoveBatchIsRemoveEach ==
    last.op = "removeBatch"
    => /\ ~last.threw
       /\ objects = RemoveEachIgnoringNotFound(last.pre, last.preKeys, last.filters)
       /\ keys = last.preKeys
       /\ (/\ Len(last.filters) = 2
           /\ last.filters[1] = last.filters[2]
           /\ Cardinality({i \in 1..Len(last.pre) :
                              MatchesFilter(last.pre[i], last.filters[1])}) >= 2)
          => Len(objects) = Len(last.pre) - 2

\* the same filter was listed twice on an index whose three records all
\* match it: the first two were removed and the third was kept
C22_Witness ==
    /\ last.op = "removeBatch"
    /\ Len(last.filters) = 2
    /\ last.filters[1] = last.filters[2]
    /\ Len(last.pre) = 3
    /\ \A i \in 1..3 : MatchesFilter(last.pre[i], last.filters[1])
    /\ last.pre[3] # last.pre[1]
    /\ objects = <<last.pre[3]>>

\* C23: add(obj) either appends obj as the last record (size() grows by one,
\* earlier records unchanged) or throws and leaves the records and the fixed
\* key set unchanged; obj is never dropped without an error.
C23_AddAppendsOrThrows ==
    last.op = "add"
    => \/ /\ ~last.threw
          /\ Len(objects) = Len(last.pre) + 1
          /\ objects = Append(last.pre, last.obj)
       \/ /\ last.threw
          /\ objects = last.pre
          /\ keys = last.preKeys

\* add was called on an index of two records with an object that lacks the
\* embedding and was rejected
C23_Witness ==
    /\ last.op = "add"
    /\ Len(last.pre) = 2
    /\ "embedding" \notin DOMAIN last.obj
    /\ last.threw
    /\ objects = last.pre

\* C24: search(q, options) fails with the dimension error, returns no
\* partial result and leaves the index unchanged whenever some record that
\* passes the filter has an embedding whose length differs from that of q.
C24_SearchDimensionError ==
    (/\ last.op = "search"
     /\ \E i \in 1..Len(last.pre) :
           /\ \A k \in DOMAIN FilterOf(last.options) :
                 /\ k \in DOMAIN last.pre[i]
                 /\ last.pre[i][k] = FilterOf(last.options)[k]
           /\ Len(last.pre[i].embedding) # Len(last.queryEmbedding))
    => /\ last.threw
       /\ last.result = <<>>
       /\ objects = last.pre
       /\ keys = last.preKeys

\* the index holds a record of the query's length followed by one of another
\* length, both pass the filter, topK is 1, and the search failed
C24_Witness ==
    /\ last.op = "search"
    /\ Len(last.pre) = 2
    /\ Len(last.pre[1].embedding) = Len(last.queryEmbedding)
    /\ Len(last.pre[2].embedding) # Len(last.queryEmbedding)
    /\ "topK" \in DOMAIN last.options
    /\ last.options.topK = 1
    /\ \A i \in 1..2 : MatchesFilter(last.pre[i], FilterOf(last.options))
    /\ last.threw

-----------------------------------------------------------------------------
(* src/hnsw.ts : PriorityQueue, EuclideanDistance, _searchLayer *)

\* null (a layerBelow of the base layer, a start vertex after the last layer)
Null == -1

\* a rational number num/den with den > 0 (mL, and the logarithm drawn in
\* getInsertLayer)
Rat(num, den) == [num |-> num, den |-> den]

\* mutant of DistanceThrows: only a longer first vector is refused
DistanceThrowsOnLonger(a, b) == Len(a) > Len(b)

\* the guard of EuclideanDistance that throws "Vectors must have the same length"
DistanceThrows(a, b) == Len(a) # Len(b)

RECURSIVE SumSquares(_, _)
SumSquares(a, b) ==
    IF a = <<>> THEN 0
    ELSE (Head(a) - Head(b)) * (Head(a) - Head(b)) + SumSquares(Tail(a), Tail(b))

\* Math.sqrt of the sum of squared differences (vectors of the model are at
\* integral distances of one another)
EuclideanDistance(a, b) == Sqrt(SumSquares(a, b))

\* elements.sort((a, b) => a[0] - b[0]) after a push: the sort is stable, so
\* the pushed pair goes after the pairs of equal distance
RECURSIVE InsertAsc(_, _)
InsertAsc(sorted, e) ==
    IF sorted = <<>> THEN <<e>>
    ELSE IF Head(sorted)[1] <= e[1]
         THEN <<Head(sorted)>> \o InsertAsc(Tail(sorted), e)
         ELSE <<e>> \o sorted

\* mutant of PushSorted: the pair is pushed and the array is not sorted
PushUnsorted(elements, element) == Append(elements, element)

\* PriorityQueue.push / nns.push followed by sort
PushSorted(elements, element) == InsertAsc(elements, element)

\* the for loop of _searchLayer over graphCurrent.connections; st holds
\* candidates, nns and visited.  A pair is <<distance, node index>>.
RECURSIVE ExpandConnections(_, _, _, _, _)
ExpandConnections(graph, query, ef, connections, st) ==
    IF connections = <<>> THEN st
    ELSE LET e == Head(connections)
         IN  IF e < 0 \/ e >= Len(graph)
             THEN ExpandConnections(graph, query, ef, Tail(connections), st)
             ELSE IF DistanceThrows(graph[e + 1].vector, query)
             THEN [st EXCEPT !.threw = TRUE]
             ELSE LET dist == EuclideanDistance(graph[e + 1].vector, query)
                      admit ==
                          \/ st.nns = <<>>
                          \/ dist < st.nns[Len(st.nns)][1]
                          \/ Len(st.nns) < ef
                      pushed == PushSorted(st.nns, <<dist, e>>)
                      st2 ==
                          IF e \in st.visited THEN st
                          ELSE IF ~admit
                          THEN [st EXCEPT !.visited = @ \cup {e}]
                          ELSE [st EXCEPT
                                  !.visited = @ \cup {e},
                                  !.candidates = PushSorted(@, <<dist, e>>),
                                  !.nns = IF Len(pushed) > ef
                                          THEN SubSeq(pushed, 1, Len(pushed) - 1)
                                          ELSE pushed]
                  IN  ExpandConnections(graph, query, ef, Tail(connections), st2)

\* the while loop of _searchLayer
RECURSIVE SearchLoop(_, _, _, _)
SearchLoop(graph, query, ef, st) ==
    IF st.threw \/ st.candidates = <<>> THEN st
    ELSE LET current == Head(st.candidates)
             popped  == [st EXCEPT !.candidates = Tail(@)]
         IN  IF st.nns # <<>> /\ st.nns[Len(st.nns)][1] < current[1]
             THEN popped
             ELSE SearchLoop(graph, query, ef,
                     ExpandConnections(graph, query, ef,
                                       graph[current[2] + 1].connections, popped))

\* _searchLayer(graph, entry, query, ef): whether it threw, and the pairs
\* <<distance, node index>> it returns
SearchLayer(graph, entry, query, ef) ==
    IF entry < 0 \/ entry >= Len(graph)
    THEN [threw |-> TRUE, nns |-> <<>>]
    ELSE IF DistanceThrows(graph[entry + 1].vector, query)
    THEN [threw |-> TRUE, nns |-> <<>>]
    ELSE LET best == <<EuclideanDistance(graph[entry + 1].vector, query), entry>>
             st == SearchLoop(graph, query, ef,
                      [candidates |-> <<best>>, nns |-> <<best>>,
                       visited |-> {entry}, threw |-> FALSE])
         IN  [threw |-> st.threw, nns |-> IF st.threw THEN <<>> ELSE st.nns]

-----------------------------------------------------------------------------
(* src/hnsw.ts : ExperimentalHNSWIndex *)

\* Math.floor of the rational num/den
Floor(num, den) == num \div den

\* getInsertLayer(L, mL) when Math.log(Math.random()) is the rational lnU
getInsertLayer(L, mL, lnU) ==
    LET l == -Floor(lnU.num * mL.num, lnU.den * mL.den)
    IN  IF l < L - 1 THEN l ELSE L - 1

\* new ExperimentalHNSWIndex(L, mL, efc)
NewHNSW(L, mL, efc) ==
    [L |-> L, mL |-> mL, efc |-> efc, index |-> [n \in 1..L |-> <<>>]]

\* setIndex(index)
setIndex(h, index) == [h EXCEPT !.index = index]

\* mutant of ConnectBack: the neighbours are not linked back to the new node
ConnectOneWay(graph, nns, newIndex) == graph

\* for (const nn of nns) { node.connections.push(nn[1]);
\*                         graph[nn[1]]?.connections.push(graph.length) }
RECURSIVE ConnectBack(_, _, _)
ConnectBack(graph, nns, newIndex) ==
    IF nns = <<>> THEN graph
    ELSE ConnectBack(
            [graph EXCEPT ![Head(nns)[2] + 1].connections = Append(@, newIndex)],
            Tail(nns), newIndex)

\* mutant of NewNode: layerBelow is the length of the node's own layer
NewNodeOwnLength(index, L, n, vec) ==
    [vector |-> vec, connections |-> <<>>,
     layerBelow |-> IF n < L - 1 THEN Len(index[n + 1]) ELSE Null]

\* the node insert makes for layer n: { vector: vec, connections: [],
\* layerBelow: n < this.L - 1 ? nextLayerLength : null }
NewNode(index, L, n, vec) ==
    LET nextLayerLength == IF n + 1 < Len(index) THEN Len(index[n + 2]) ELSE Null
    IN  [vector |-> vec, connections |-> <<>>,
         layerBelow |-> IF n < L - 1 THEN nextLayerLength ELSE Null]

\* mutant of HopOnly: layer l is searched and left as it is, too
HopOnlyThroughTarget(n, l) == n <= l

\* if (n < l && graph): the layer is only searched for the next start vertex
HopOnly(n, l) == n < l

\* one call of _searchLayer made by insert, as c.calls keeps it: the layer,
\* the entry given to it, and the nearest node it returned (Null when it threw)
SearchCall(n, entry, r) ==
    [n |-> n, entry |-> entry,
     nearest |-> IF r.threw \/ r.nns = <<>> THEN Null ELSE r.nns[1][2]]

\* the body of insert's for loop from layer n on (n is the JavaScript layer
\* number, layer n is index[n + 1]); returns the index, whether it threw,
\* and the calls of _searchLayer it made
RECURSIVE InsertLoop(_, _, _, _, _, _)
InsertLoop(index, L, efc, vec, l, c) ==
    LET n == c.n
        startV == c.startV
    IN
    IF n >= L THEN [threw |-> FALSE, index |-> index, calls |-> c.calls]
    ELSE LET graph == index[n + 1]
             node == NewNode(index, L, n, vec)
         IN  IF graph = <<>>
             THEN InsertLoop([index EXCEPT ![n + 1] = <<node>>], L, efc, vec, l,
                             [n |-> n + 1, startV |-> startV, calls |-> c.calls])
             ELSE IF HopOnly(n, l)
             THEN LET r == SearchLayer(graph, startV, vec, 1)
                      calls == Append(c.calls, SearchCall(n, startV, r))
                  IN  IF r.threw
                      THEN [threw |-> TRUE, index |-> index, calls |-> calls]
                      ELSE InsertLoop(index, L, efc, vec, l,
                              [n |-> n + 1,
                               startV |-> IF r.nns # <<>> THEN r.nns[1][2] ELSE startV,
                               calls |-> calls])
             ELSE LET r == SearchLayer(graph, startV, vec, efc)
                      calls == Append(c.calls, SearchCall(n, startV, r))
                  IN  IF r.threw
                      THEN [threw |-> TRUE, index |-> index, calls |-> calls]
                      ELSE LET linked == [node EXCEPT !.connections =
                                            [i \in 1..Len(r.nns) |-> r.nns[i][2]]]
                               graph2 == Append(ConnectBack(graph, r.nns, Len(graph)),
                                                linked)
                           IN  InsertLoop([index EXCEPT ![n + 1] = graph2],
                                          L, efc, vec, l,
                                          [n |-> n + 1,
                                           startV |-> graph2[startV + 1].layerBelow,
                                           calls |-> calls])

\* insert(vec) with drawn layer l
insert(h, vec, l) ==
    LET r == InsertLoop(h.index, h.L, h.efc, vec, l,
                        [n |-> 0, startV |-> 0, calls |-> <<>>])
    IN  [threw |-> r.threw, hnsw |-> [h EXCEPT !.index = r.index],
         calls |-> r.calls]

\* the for loop of search over this.index, from layer n on
RECURSIVE SearchDescend(_, _, _, _, _)
SearchDescend(index, query, ef, n, bestV) ==
    IF n >= Len(index) THEN [threw |-> FALSE, result |-> <<>>]
    ELSE LET graph == index[n + 1]
             r == SearchLayer(graph, bestV, query, ef)
         IN  IF r.threw THEN [threw |-> TRUE, result |-> <<>>]
             ELSE IF r.nns = <<>>
             THEN SearchDescend(index, query, ef, n + 1, bestV)
             ELSE LET found == r.nns[1][2]
                  IN  IF graph[found + 1].layerBelow = Null
                      THEN LET final == SearchLayer(graph, found, query, ef)
                           IN  [threw |-> final.threw, result |-> final.nns]
                      ELSE SearchDescend(index, query, ef, n + 1,
                                         graph[found + 1].layerBelow)

\* search(query, ef)
hnswSearch(h, query, ef) ==
    IF Len(h.index) > 0 /\ h.index[1] = <<>>
    THEN [threw |-> FALSE, result |-> <<>>]
    ELSE SearchDescend(h.index, query, ef, 0, 0)

\* toJSON()
toJSON(h) == [L |-> h.L, mL |-> h.mL, efc |-> h.efc, index |-> h.index]

\* static fromJSON(json)
fromJSON(json) == NewHNSW(json.L, json.mL, json.efc)

-----------------------------------------------------------------------------
(* @msgpack/msgpack encode / decode, as toBinary and fromBinary use them.   *)
(* The binary is held as the sequence of MessagePack items it is made of,  *)
(* in wire order: <<"map", n>> and <<"array", n>> headers, <<"str", s>>,    *)
(* <<"int", i>>, <<"float64", num, den>> and <<"nil">>.                     *)

\* a number: an integer format when Number.isSafeInteger, float 64 otherwise
EncodeNumber(r) ==
    IF r.den = 1 THEN <<"int", r.num>> ELSE <<"float64", r.num, r.den>>

RECURSIVE EncodeInts(_)
EncodeInts(ints) ==
    IF ints = <<>> THEN <<>>
    ELSE <<(<<"int", Head(ints)>>)>> \o EncodeInts(Tail(ints))

EncodeIntArray(ints) == <<(<<"array", Len(ints)>>)>> \o EncodeInts(ints)

EncodeNode(node) ==
    <<(<<"map", 3>>)>>
    \o <<(<<"str", "vector">>)>> \o EncodeIntArray(node.vector)
    \o <<(<<"str", "connections">>)>> \o EncodeIntArray(node.connections)
    \o <<(<<"str", "layerBelow">>)>>
    \o (IF node.layerBelow = Null THEN <<(<<"nil">>)>>
        ELSE <<(<<"int", node.layerBelow>>)>>)

RECURSIVE EncodeNodes(_)
EncodeNodes(nodes) ==
    IF nodes = <<>> THEN <<>>
    ELSE EncodeNode(Head(nodes)) \o EncodeNodes(Tail(nodes))

RECURSIVE EncodeLayers(_)
EncodeLayers(layers) ==
    IF layers = <<>> THEN <<>>
    ELSE <<(<<"array", Len(Head(layers))>>)>> \o EncodeNodes(Head(layers))
         \o EncodeLayers(Tail(layers))

\* encode({L, mL, efc, index})
Encode(data) ==
    <<(<<"map", 4>>)>>
    \o <<(<<"str", "L">>), (<<"int", data.L>>)>>
    \o <<(<<"str", "mL">>), EncodeNumber(data.mL)>>
    \o <<(<<"str", "efc">>), (<<"int", data.efc>>)>>
    \o <<(<<"str", "index">>), (<<"array", Len(data.index)>>)>>
    \o EncodeLayers(data.index)

\* what the value under a key is read as
FieldKind(key) ==
    CASE key = "L" -> "int"
      [] key = "mL" -> "number"
      [] key = "efc" -> "int"
      [] key = "index" -> "layers"
      [] key = "vector" -> "ints"
      [] key = "connections" -> "ints"
      [] key = "layerBelow" -> "intOrNull"

\* decode: reads one value of the given kind at the head of the items and
\* returns it with the items that follow it
RECURSIVE DecodeValue(_, _)
RECURSIVE DecodeItems(_, _, _)
RECURSIVE DecodeFields(_, _)
DecodeValue(items, kind) ==
    LET t == Head(items)
    IN  CASE kind = "int" -> [value |-> t[2], rest |-> Tail(items)]
          [] kind = "number" ->
                [value |-> IF t[1] = "int" THEN Rat(t[2], 1) ELSE Rat(t[2], t[3]),
                 rest |-> Tail(items)]
          [] kind = "intOrNull" ->
                [value |-> IF t[1] = "nil" THEN Null ELSE t[2], rest |-> Tail(items)]
          [] kind = "ints" -> DecodeItems(Tail(items), t[2], "int")
          [] kind = "nodes" -> DecodeItems(Tail(items), t[2], "map")
          [] kind = "layers" -> DecodeItems(Tail(items), t[2], "nodes")
          [] kind = "map" -> DecodeFields(Tail(items), t[2])

DecodeItems(items, count, kind) ==
    IF count = 0 THEN [value |-> <<>>, rest |-> items]
    ELSE LET first  == DecodeValue(items, kind)
             others == DecodeItems(first.rest, count - 1, kind)
         IN  [value |-> <<first.value>> \o others.value, rest |-> others.rest]

DecodeFields(items, count) ==
    IF count = 0 THEN [value |-> <<>>, rest |-> items]
    ELSE LET key    == Head(items)[2]
             first  == DecodeValue(Tail(items), FieldKind(key))
             others == DecodeFields(first.rest, count - 1)
         IN  [value |-> (key :> first.value) @@ others.value, rest |-> others.rest]

Decode(binary) == DecodeValue(binary, "map").value

\* toBinary()
toBinary(h) == Encode([L |-> h.L, mL |-> h.mL, efc |-> h.efc, index |-> h.index])

\* mutant of fromBinary: the decoded layers are not installed (as in fromJSON)
fromBinaryWithoutSetIndex(binary) ==
    LET data == Decode(binary)
    IN  NewHNSW(data.L, data.mL, data.efc)

\* static fromBinary(binary)
fromBinary(binary) ==
    LET data == Decode(binary)
    IN  setIndex(NewHNSW(data.L, data.mL, data.efc), data.index)

-----------------------------------------------------------------------------
(* ExperimentalHNSWIndex: inputs and state machine *)

MaxInserts == 3
MaxEf == 2

\* the corners of a 3 x 4 rectangle (pairwise distances 0, 3, 4, 5) and one
\* vector of another dimension
Vectors == {<<0, 0>>, <<3, 0>>, <<0, 4>>, <<3, 4>>, <<7>>}

\* constructor arguments (L, mL, efc): the defaults 5, 0.62, 10 and smaller
\* graphs, one of them with mL = 0
Configs ==
    {[L |-> 5, mL |-> Rat(31, 50), efc |-> 10],
     [L |-> 3, mL |-> Rat(31, 50), efc |-> 1],
     [L |-> 2, mL |-> Rat(0, 1), efc |-> 2],
     [L |-> 1, mL |-> Rat(1, 1), efc |-> 1]}

\* values of Math.log(Math.random()): -1/4, -2, -8
LogDraws == {Rat(-1, 4), Rat(-2, 1), Rat(-8, 1)}

Efs == 0..MaxEf

\* number of vectors inserted so far (every insert reaches the last layer)
Inserted(h) == Len(h.index[h.L])

HnswInit ==
    /\ \E c \in Configs : hnsw = NewHNSW(c.L, c.mL, c.efc)
    /\ hLast = [op |-> "constructor"]
    /\ objects = Off /\ keys = Off /\ last = Off
    /\ gen = [pc |-> "off"] /\ genLog = <<>>
    /\ val = Off
    /\ idb = Off /\ task = Off
    /\ cacheInstance = Off /\ currentModel = Off /\ eLast = Off
    /\ cos = Off /\ meta = Off
    /\ chunked = Off /\ pending = Off

HnswIdle == hLast.op = "none"

\* the caller takes the result of the call that has returned
HnswReturn ==
    /\ ~HnswIdle
    /\ hLast' = [op |-> "none"]
    /\ UNCHANGED hnsw
    /\ UNCHANGED notHn

\* insert(vec) when Math.log(Math.random()) is lnU, on a graph of fewer than
\* max vectors
InsertUpTo(vec, lnU, max) ==
    /\ HnswIdle
    /\ Inserted(hnsw) < max
    /\ LET l == getInsertLayer(hnsw.L, hnsw.mL, lnU)
           r == insert(hnsw, vec, l)
       IN  /\ hnsw' = r.hnsw
           /\ hLast' = [op |-> "insert", pre |-> hnsw, vec |-> vec, lnU |-> lnU,
                        l |-> l, threw |-> r.threw, calls |-> r.calls]
    /\ UNCHANGED notHn

Insert(vec, lnU) == InsertUpTo(vec, lnU, MaxInserts)

HnswSearch(query, ef) ==
    /\ HnswIdle
    /\ LET r == hnswSearch(hnsw, query, ef)
       IN  hLast' = [op |-> "search", pre |-> hnsw, query |-> query, ef |-> ef,
                     threw |-> r.threw, result |-> r.result]
    /\ UNCHANGED hnsw
    /\ UNCHANGED notHn

ToJSON ==
    /\ HnswIdle
    /\ hLast' = [op |-> "toJSON", json |-> toJSON(hnsw)]
    /\ UNCHANGED hnsw
    /\ UNCHANGED notHn

\* fromJSON applied to the snapshot that toJSON has just returned
FromJSON ==
    /\ hLast.op = "toJSON"
    /\ hLast' = [op |-> "fromJSON", restored |-> fromJSON(hLast.json)]
    /\ UNCHANGED hnsw
    /\ UNCHANGED notHn

ToBinary ==
    /\ HnswIdle
    /\ hLast' = [op |-> "toBinary", binary |-> toBinary(hnsw)]
    /\ UNCHANGED hnsw
    /\ UNCHANGED notHn

\* fromBinary applied to the binary that toBinary has just returned
FromBinary ==
    /\ hLast.op = "toBinary"
    /\ hLast' = [op |-> "fromBinary", restored |-> fromBinary(hLast.binary)]
    /\ UNCHANGED hnsw
    /\ UNCHANGED notHn

HnswNext ==
    \/ HnswReturn
    \/ \E vec \in Vectors, lnU \in LogDraws : Insert(vec, lnU)
    \/ \E query \in Vectors, ef \in Efs : HnswSearch(query, ef)
    \/ ToJSON
    \/ FromJSON
    \/ ToBinary
    \/ FromBinary

\* A graph of three layers with efc = 1, grown by one insert more: the
\* smallest graph in which a node of an upper layer sits at another index
\* than its counterpart in the layer below, and is then chosen during a hop
MaxDeepInserts == 4

\* three corners of the rectangle and the vector of another dimension
DeepVectors == {<<0, 0>>, <<3, 0>>, <<0, 4>>, <<7>>}

\* values of Math.log(Math.random()) that give the layers 1 and 2
DeepDraws == {Rat(-1, 4), Rat(-2, 1)}

HnswDeepInit ==
    /\ hnsw = NewHNSW(3, Rat(31, 50), 1)
    /\ hLast = [op |-> "constructor"]
    /\ objects = Off /\ keys = Off /\ last = Off
    /\ gen = [pc |-> "off"] /\ genLog = <<>>
    /\ val = Off
    /\ idb = Off /\ task = Off
    /\ cacheInstance = Off /\ currentModel = Off /\ eLast = Off
    /\ cos = Off /\ meta = Off
    /\ chunked = Off /\ pending = Off

DeepInsert(vec, lnU) == InsertUpTo(vec, lnU, MaxDeepInserts)

HnswDeepNext ==
    \/ HnswReturn
    \/ \E vec \in DeepVectors, lnU \in DeepDraws : DeepInsert(vec, lnU)
    \/ \E query \in DeepVectors, ef \in 1..MaxDeepInserts : HnswSearch(query, ef)

-----------------------------------------------------------------------------
(* Claims about ExperimentalHNSWIndex serialization *)

\* the two instances answer every query alike, for every ef
SameSearchResults(a, b) ==
    \A query \in Vectors, ef \in Efs : hnswSearch(a, query, ef) = hnswSearch(b, query, ef)

\* C2: for every index x reached by inserts, every query q and every ef,
\* fromJSON(x.toJSON()).search(q, ef) returns the same list as x.search(q, ef).
C2_JsonRoundTripSearch ==
    hLast.op = "fromJSON" => SameSearchResults(hLast.restored, hnsw)

\* C3: for every index x reached by inserts, every query q and every ef,
\* fromBinary(x.toBinary()).search(q, ef) returns the same list as
\* x.search(q, ef), and the restored instance has the same L, mL, efc and
\* layers as x.
C3_BinaryRoundTrip ==
    hLast.op = "fromBinary"
    => /\ SameSearchResults(hLast.restored, hnsw)
       /\ hLast.restored.L = hnsw.L
       /\ hLast.restored.mL = hnsw.mL
       /\ hLast.restored.efc = hnsw.efc
       /\ hLast.restored.index = hnsw.index

\* a graph of three distinct inserted vectors, with a base-layer node linked to two
\* others, has been restored from its binary and answers a query with
\* several results
C3_Witness ==
    /\ hLast.op = "fromBinary"
    /\ Inserted(hnsw) >= 3
    /\ hnsw.L >= 3
    /\ \E i \in 1..Len(hnsw.index[hnsw.L]) :
          Len(hnsw.index[hnsw.L][i].connections) >= 2
    /\ \A i, j \in 1..Len(hnsw.index[hnsw.L]) :
          /\ Len(hnsw.index[hnsw.L][i].vector) = 2
          /\ i # j => hnsw.index[hnsw.L][i].vector # hnsw.index[hnsw.L][j].vector
    /\ \E query \in Vectors :
          Len(hnswSearch(hLast.restored, query, MaxEf).result) >= 2

-----------------------------------------------------------------------------
(* Claims about ExperimentalHNSWIndex insert and search *)

\* the layer that holds every inserted vector: the last one of this.index,
\* the only one whose nodes get layerBelow: null
BaseLayer(h) == h.index[h.L]

\* d is the Euclidean distance between the vectors a and b
IsDistance(d, a, b) ==
    /\ Len(a) = Len(b)
    /\ d >= 0
    /\ d * d = SumSquares(a, b)

\* C26: search(q, ef) with ef >= 1 returns at most ef [distance, nodeIndex]
\* pairs, ordered by non-decreasing distance, with pairwise distinct
\* nodeIndex values that are indices of base-layer nodes, each distance
\* being the Euclidean distance between q and that node's vector; on an
\* index with no inserted vector it returns the empty list; search never
\* modifies the graph.  (A query of the dimension of the stored vectors
\* never fails.)
C26_SearchResultShape ==
    (hLast.op = "search" /\ hLast.ef >= 1)
    => LET base == BaseLayer(hLast.pre)
           res == hLast.result
       IN  /\ hnsw = hLast.pre
           /\ base = <<>> => (res = <<>> /\ ~hLast.threw)
           /\ hLast.threw
              => \E i \in 1..Len(base) : Len(base[i].vector) # Len(hLast.query)
           /\ (~hLast.threw /\ base # <<>>) => res # <<>>
           /\ Len(res) <= hLast.ef
           /\ \A i \in 1..(Len(res) - 1) : res[i][1] <= res[i + 1][1]
           /\ \A i, j \in 1..Len(res) : i # j => res[i][2] # res[j][2]
           /\ \A i \in 1..Len(res) :
                 /\ res[i][2] \in 0..(Len(base) - 1)
                 /\ IsDistance(res[i][1], base[res[i][2] + 1].vector, hLast.query)

\* a search with ef = 2 on a graph of three layers or more holding three
\* vectors returned two nodes at different distances of the query
C26_Witness ==
    /\ hLast.op = "search"
    /\ hLast.ef = 2
    /\ hnsw.L >= 3
    /\ Len(BaseLayer(hnsw)) = 3
    /\ Len(hLast.result) = 2
    /\ hLast.result[1][1] < hLast.result[2][1]

\* C29: after any sequence of k inserts into an index with L layers, layer 0
\* (this.index[0]) is the base layer and holds k nodes, one per inserted
\* vector in insertion order, and each higher-numbered layer holds no more
\* nodes than the layer below it.
C29_LayerZeroHoldsEveryVector ==
    /\ (hLast.op = "insert" /\ ~hLast.threw)
       => /\ Len(hnsw.index[1]) = Len(hLast.pre.index[1]) + 1
          /\ hnsw.index[1][Len(hnsw.index[1])].vector = hLast.vec
    /\ \A n \in 1..(hnsw.L - 1) : Len(hnsw.index[n + 1]) <= Len(hnsw.index[n])

\* C30: in every graph reachable by inserts, a node's layerBelow is null
\* exactly when the node is in the base layer (the layer holding every
\* inserted vector); otherwise it is a valid index into the next finer layer
\* and the node at that index carries the same vector.
C30_LayerBelowLinksSameVector ==
    \A n \in 1..hnsw.L :
        \A i \in 1..Len(hnsw.index[n]) :
            LET node == hnsw.index[n][i]
            IN  /\ node.layerBelow = Null <=> n = hnsw.L
                /\ n < hnsw.L
                   => /\ node.layerBelow \in 0..(Len(hnsw.index[n + 1]) - 1)
                      /\ hnsw.index[n + 1][node.layerBelow + 1].vector = node.vector

\* three vectors were inserted into a graph of three layers or more whose
\* top layer holds fewer nodes than the base layer, and a node above the
\* base layer is linked to a node that is not the first of the layer below
C30_Witness ==
    /\ hnsw.L >= 3
    /\ Len(BaseLayer(hnsw)) = 3
    /\ Len(hnsw.index[1]) < Len(BaseLayer(hnsw))
    /\ \E n \in 1..(hnsw.L - 1) :
          \E i \in 1..Len(hnsw.index[n]) : hnsw.index[n][i].layerBelow >= 1

\* node j (a JavaScript index) is in the connections of node i of the graph
HasConnection(graph, i, j) ==
    \E k \in 1..Len(graph[i + 1].connections) : graph[i + 1].connections[k] = j

\* C31: in every layer of every graph reachable by inserts, connections are
\* symmetric (j is in the connections of i iff i is in the connections of
\* j), contain no self-reference, no duplicate and only indices of existing
\* nodes of that layer; with efc >= 1 each insert gives the new node at most
\* efc connections.
C31_ConnectionsWellFormed ==
    /\ \A n \in 1..hnsw.L :
          LET graph == hnsw.index[n]
          IN  \A i \in 0..(Len(graph) - 1) :
                 LET cs == graph[i + 1].connections
                 IN  /\ \A k \in 1..Len(cs) :
                           /\ cs[k] \in 0..(Len(graph) - 1)
                           /\ cs[k] # i
                           /\ HasConnection(graph, cs[k], i)
                     /\ \A k1, k2 \in 1..Len(cs) : k1 # k2 => cs[k1] # cs[k2]
    /\ (hLast.op = "insert" /\ ~hLast.threw /\ hnsw.efc >= 1)
       => \A n \in 1..hnsw.L :
             Len(hnsw.index[n]) > Len(hLast.pre.index[n])
             => Len(hnsw.index[n][Len(hnsw.index[n])].connections) <= hnsw.efc

\* an insert into a graph with efc >= 2 gave the new node two connections in
\* a layer that now holds three nodes
C31_Witness ==
    /\ hLast.op = "insert"
    /\ ~hLast.threw
    /\ hnsw.efc >= 2
    /\ \E n \in 1..hnsw.L :
          /\ Len(hnsw.index[n]) = 3
          /\ Len(hLast.pre.index[n]) = 2
          /\ Len(hnsw.index[n][3].connections) = 2

\* Math.min(a, b)
Min(a, b) == IF a < b THEN a ELSE b

\* C32: for every draw U in (0,1) and every mL >= 0 and L >= 1, the
\* insertion layer used by insert equals min(floor(-ln(U)*mL), L-1), and
\* therefore lies in 0..L-1.
C32_InsertLayerFormula ==
    hLast.op = "insert"
    => /\ hLast.l = Min(Floor(-(hLast.lnU.num * hnsw.mL.num),
                              hLast.lnU.den * hnsw.mL.den),
                        hnsw.L - 1)
       /\ hLast.l \in 0..(hnsw.L - 1)

\* the graph holds no vector
EmptyGraph(h) == \A n \in 1..h.L : h.index[n] = <<>>

\* graph2 is graph with one node carrying vec appended: the nodes of graph
\* keep their vector and their layerBelow
AppendsNode(graph, graph2, vec) ==
    /\ Len(graph2) = Len(graph) + 1
    /\ graph2[Len(graph2)].vector = vec
    /\ \A i \in 1..Len(graph) :
          /\ graph2[i].vector = graph[i].vector
          /\ graph2[i].layerBelow = graph[i].layerBelow

\* C33: on an empty graph, insert seeds every one of the L layers with
\* exactly one node carrying the vector and no connections; on a non-empty
\* graph, insert with drawn layer l appends exactly one node carrying the
\* vector to every layer n >= l and changes nothing (no node, no connection)
\* in the layers n < l.  (An insert that throws is not covered.)
C33_InsertAppendsFromDrawnLayer ==
    (hLast.op = "insert" /\ ~hLast.threw)
    => IF EmptyGraph(hLast.pre)
       THEN \A n \in 1..hnsw.L :
               /\ Len(hnsw.index[n]) = 1
               /\ hnsw.index[n][1].vector = hLast.vec
               /\ hnsw.index[n][1].connections = <<>>
       ELSE \A n \in 0..(hnsw.L - 1) :
               IF n >= hLast.l
               THEN AppendsNode(hLast.pre.index[n + 1], hnsw.index[n + 1], hLast.vec)
               ELSE hnsw.index[n + 1] = hLast.pre.index[n + 1]

\* an insert with drawn layer 2 into a graph of three layers or more holding
\* two vectors left layers 0 and 1 as they were
C33_Witness ==
    /\ hLast.op = "insert"
    /\ ~hLast.threw
    /\ hnsw.L >= 3
    /\ hLast.l = 2
    /\ Len(hLast.pre.index[hnsw.L]) = 2
    /\ Len(hnsw.index[hnsw.L]) = 3
    /\ Len(hnsw.index[2]) = Len(hLast.pre.index[2])

\* C34: during insert, every move from a layer to the next finer layer goes
\* through a layerBelow pointer: the entry point used in layer n+1 is the
\* layerBelow counterpart of the node chosen (the nearest one found) in
\* layer n, both for the single-hop layers n < l and for the insertion
\* layers n >= l.
C34_DescentFollowsLayerBelow ==
    (hLast.op = "insert" /\ ~hLast.threw)
    => \A i \in 1..(Len(hLast.calls) - 1) :
          LET c == hLast.calls[i]
              d == hLast.calls[i + 1]
          IN  d.entry = hnsw.index[c.n + 1][c.nearest + 1].layerBelow

\* every vector of the graph has the dimension of vec
SameDimension(h, vec) ==
    \A i \in 1..Len(BaseLayer(h)) : Len(BaseLayer(h)[i].vector) = Len(vec)

\* C39: for any sequence of inserts of vectors of one common dimension and
\* any drawn insertion layers, every entry index passed to _searchLayer
\* during insert and search is a valid index of the layer being searched, so
\* neither operation ever throws; an insert of a vector of a different
\* dimension into a non-empty graph throws and leaves every layer unchanged.
C39_EntriesValidNeverThrows ==
    /\ hLast.op = "insert"
       => /\ \A i \in 1..Len(hLast.calls) :
                hLast.calls[i].entry
                    \in 0..(Len(hLast.pre.index[hLast.calls[i].n + 1]) - 1)
          /\ SameDimension(hLast.pre, hLast.vec) => ~hLast.threw
          /\ ~SameDimension(hLast.pre, hLast.vec)
             => (hLast.threw /\ hnsw = hLast.pre)
    /\ hLast.op = "search"
       => (SameDimension(hLast.pre, hLast.query) => ~hLast.threw)

\* the fourth insert hopped through layers 0 and 1 with valid entries, and
\* entered layer 2 at a node that is not the first of the layer
C39_Witness ==
    /\ hLast.op = "insert"
    /\ ~hLast.threw
    /\ Len(BaseLayer(hnsw)) = 4
    /\ Len(hLast.calls) = 3
    /\ hLast.calls[3].entry >= 1

\* C40: for a graph built by N >= 1 inserts, search(q, ef) with ef >= N
\* returns exactly N pairs, one for every inserted vector, ordered by
\* non-decreasing Euclidean distance to q: it agrees with an exhaustive
\* brute-force ranking.  (q has the dimension of the inserted vectors.)
C40_SearchWithLargeEfIsExhaustive ==
    (/\ hLast.op = "search"
     /\ Len(BaseLayer(hLast.pre)) >= 1
     /\ hLast.ef >= Len(BaseLayer(hLast.pre))
     /\ SameDimension(hLast.pre, hLast.query))
    => LET base == BaseLayer(hLast.pre)
           res == hLast.result
       IN  /\ ~hLast.threw
           /\ Len(res) = Len(base)
           /\ {res[i][2] : i \in 1..Len(res)} = 0..(Len(base) - 1)
           /\ \A i \in 1..(Len(res) - 1) : res[i][1] <= res[i + 1][1]
           /\ \A i \in 1..Len(res) :
                 IsDistance(res[i][1], base[res[i][2] + 1].vector, hLast.query)

\* a search with ef = 4 on a graph of four vectors, three of them distinct,
\* returned the four nodes, the nearest one not being the first inserted
C40_Witness ==
    /\ hLast.op = "search"
    /\ hLast.ef = 4
    /\ Len(BaseLayer(hnsw)) = 4
    /\ Len(hLast.result) = 4
    /\ hLast.result[1][2] # 0
    /\ hLast.result[1][1] < hLast.result[4][1]

-----------------------------------------------------------------------------
(* src/doc-generator : EmbeddingGenerator.generateEmbeddings *)

\* dimensions of gte-small: new Array(384).fill(0), expectedDimensions
GteSmallDimensions == 384

\* new Array(n).fill(v)
ArrayFill(n, v) == [i \in 1..n |-> v]

\* embedding.every(val => val === 0)
EveryZero(embedding) == \A i \in 1..Len(embedding) : embedding[i] = 0

\* allChunks.push(...doc.chunks) for each document
RECURSIVE AllChunks(_)
AllChunks(documents) ==
    IF documents = <<>> THEN <<>>
    ELSE Head(documents).chunks \o AllChunks(Tail(documents))

\* mutant of BatchAt: the slice runs to the end of the chunks
BatchAtRest(allChunks, i, batchSize) == SubSeq(allChunks, i + 1, Len(allChunks))

\* mutant of BatchAt: the slice stops one chunk early
BatchAtShort(allChunks, i, batchSize) ==
    SubSeq(allChunks, i + 1,
           IF i + batchSize < Len(allChunks) THEN i + batchSize - 1
           ELSE Len(allChunks))

\* allChunks.slice(i, i + batchSize)
BatchAt(allChunks, i, batchSize) ==
    SubSeq(allChunks, i + 1,
           IF i + batchSize < Len(allChunks) THEN i + batchSize ELSE Len(allChunks))

\* Math.floor(i / this.batchSize) + 1 (0 / 0 is NaN; with batchSize 0 the
\* loop never leaves i = 0)
BatchNumber(i, batchSize) ==
    IF batchSize = 0 THEN NaN ELSE (i \div batchSize) + 1

\* Math.min(100 + (batchNumber * 10), 500)
BatchDelay(batchNumber) ==
    IF batchNumber = NaN THEN NaN
    ELSE IF 100 + batchNumber * 10 < 500 THEN 100 + batchNumber * 10 ELSE 500

\* mutant of FallbackEmbedding: an empty array as the fallback
FallbackEmptyArray == <<>>

\* the fallback of generateEmbeddingWithRetry
FallbackEmbedding == ArrayFill(GteSmallDimensions, 0)

\* mutant of RetryDelayMs: a constant delay, no backoff
RetryDelayConstant(retryDelay, attempt) == retryDelay

\* this.delay(this.retryDelay * attempt)
RetryDelayMs(retryDelay, attempt) == retryDelay * attempt

\* embedding && embedding.length > 0
NonEmpty(embedding) == Len(embedding) > 0

MaxChunks == 2

\* genLog keeps the first MaxLog events of a run (a run that returns makes
\* fewer)
MaxLog == 20

Logged(log, events) ==
    IF Len(log) + Len(events) <= MaxLog THEN log \o events ELSE log

\* constructor arguments: the defaults (5, 3, 1000), the (1, 1, 10) of the
\* batch test, and generators with two and with no attempt per chunk
GeneratorConfigs ==
    {[batchSize |-> 5, maxRetries |-> 3, retryDelay |-> 1000],
     [batchSize |-> 1, maxRetries |-> 1, retryDelay |-> 10],
     [batchSize |-> 2, maxRetries |-> 2, retryDelay |-> 100],
     [batchSize |-> 1, maxRetries |-> 0, retryDelay |-> 1000]}

Chunk(k) == [id |-> k, content |-> k]

\* chunks from..to as one document
Document(from, to) == [chunks |-> [k \in 1..(to - from + 1) |-> Chunk(from + k - 1)]]

\* the document lists: none, chunks 1..n in one document, or cut in two
\* documents after chunk c (one of which may hold no chunk)
DocumentLists ==
    {<<>>}
    \cup {<<Document(1, n)>> : n \in 0..MaxChunks}
    \cup {<<Document(1, p[2]), Document(p[2] + 1, p[1])>> :
             p \in {q \in (1..MaxChunks) \X (0..MaxChunks) : q[2] <= q[1]}}

\* what one call getEmbedding(chunk.content) can do: throw, return an empty
\* array, or return the vector of the chunk (384 times its content number)
ModelOutcomes == {"throw", "empty", "vector"}

ModelReturn(chunk, outcome) ==
    IF outcome = "vector" THEN ArrayFill(GteSmallDimensions, chunk.content)
    ELSE <<>>

GenInit ==
    /\ \E c \in GeneratorConfigs :
          gen = [pc |-> "ready", batchSize |-> c.batchSize,
                 maxRetries |-> c.maxRetries, retryDelay |-> c.retryDelay]
    /\ genLog = <<>>
    /\ objects = Off /\ keys = Off /\ last = Off
    /\ hnsw = Off /\ hLast = Off
    /\ val = Off
    /\ idb = Off /\ task = Off
    /\ cacheInstance = Off /\ currentModel = Off /\ eLast = Off
    /\ cos = Off /\ meta = Off
    /\ chunked = Off /\ pending = Off

\* generateEmbeddings(documents) up to the for loop over the batches
GenerateEmbeddings(documents) ==
    /\ gen.pc = "ready"
    /\ gen' = [pc |-> "batchLoop", batchSize |-> gen.batchSize,
               maxRetries |-> gen.maxRetries, retryDelay |-> gen.retryDelay,
               documents |-> documents,
               allChunks |-> AllChunks(documents),
               embeddings |-> <<>>,
               successfulEmbeddings |-> 0, failedEmbeddings |-> 0,
               i |-> 0]
    /\ UNCHANGED genLog
    /\ UNCHANGED notGen

\* i < allChunks.length: slice the batch and enter processBatch
NextBatch ==
    /\ gen.pc = "batchLoop"
    /\ gen.i < Len(gen.allChunks)
    /\ gen' = [pc |-> "chunkLoop", batchSize |-> gen.batchSize,
               maxRetries |-> gen.maxRetries, retryDelay |-> gen.retryDelay,
               documents |-> gen.documents, allChunks |-> gen.allChunks,
               embeddings |-> gen.embeddings,
               successfulEmbeddings |-> gen.successfulEmbeddings,
               failedEmbeddings |-> gen.failedEmbeddings,
               i |-> gen.i,
               batch |-> BatchAt(gen.allChunks, gen.i, gen.batchSize),
               batchNumber |-> BatchNumber(gen.i, gen.batchSize),
               batchEmbeddings |-> <<>>, successful |-> 0, failed |-> 0,
               k |-> 1, attempt |-> 0]
    /\ UNCHANGED genLog
    /\ UNCHANGED notGen

\* for (const chunk of chunks): enter generateEmbeddingWithRetry(chunk)
NextChunk ==
    /\ gen.pc = "chunkLoop"
    /\ gen.k <= Len(gen.batch)
    /\ gen' = [gen EXCEPT !.pc = "attemptLoop", !.attempt = 1]
    /\ UNCHANGED genLog
    /\ UNCHANGED notGen

\* embeddings.push(embedding) and the counters of processBatch
PushEmbedding(g, embedding) ==
    [g EXCEPT !.pc = "chunkLoop",
              !.batchEmbeddings = Append(@, embedding),
              !.failed = IF EveryZero(embedding) THEN @ + 1 ELSE @,
              !.successful = IF EveryZero(embedding) THEN @ ELSE @ + 1,
              !.k = @ + 1]

\* attempt <= maxRetries: await getEmbedding(chunk.content), then return the
\* embedding, or catch the error and, when attempts remain, start the delay
CallModel(outcome) ==
    /\ gen.pc = "attemptLoop"
    /\ gen.attempt <= gen.maxRetries
    /\ LET chunk == gen.batch[gen.k]
           embedding == ModelReturn(chunk, outcome)
           call == [type |-> "call", chunk |-> chunk.id, attempt |-> gen.attempt,
                    outcome |-> outcome, value |-> embedding]
       IN  IF outcome # "throw" /\ NonEmpty(embedding)
           THEN /\ gen' = PushEmbedding(gen, embedding)
                /\ genLog' = Logged(genLog, <<call>>)
           ELSE IF gen.attempt < gen.maxRetries
           THEN /\ gen' = [gen EXCEPT !.pc = "retryDelay"]
                /\ genLog' = Logged(genLog,
                      <<call, [type |-> "delay", after |-> "attempt",
                               ms |-> RetryDelayMs(gen.retryDelay, gen.attempt)]>>)
           ELSE /\ gen' = [gen EXCEPT !.attempt = @ + 1]
                /\ genLog' = Logged(genLog, <<call>>)
    /\ UNCHANGED notGen

\* the retry delay has elapsed: attempt++
RetryDelayElapsed ==
    /\ gen.pc = "retryDelay"
    /\ gen' = [gen EXCEPT !.pc = "attemptLoop", !.attempt = @ + 1]
    /\ UNCHANGED genLog
    /\ UNCHANGED notGen

\* attempt > maxRetries: return new Array(384).fill(0)
Fallback ==
    /\ gen.pc = "attemptLoop"
    /\ gen.attempt > gen.maxRetries
    /\ gen' = PushEmbedding(gen, FallbackEmbedding)
    /\ UNCHANGED genLog
    /\ UNCHANGED notGen

\* processBatch returns: push its embeddings, add its counters, start the
\* delay that follows the batch
EndBatch ==
    /\ gen.pc = "chunkLoop"
    /\ gen.k > Len(gen.batch)
    /\ gen' = [gen EXCEPT !.pc = "batchDelay",
                          !.embeddings = @ \o gen.batchEmbeddings,
                          !.successfulEmbeddings = @ + gen.successful,
                          !.failedEmbeddings = @ + gen.failed]
    /\ genLog' = Logged(genLog, <<[type |-> "delay", after |-> "batch",
                                   ms |-> BatchDelay(gen.batchNumber)]>>)
    /\ UNCHANGED notGen

\* the delay after the batch has elapsed: i += batchSize
BatchDelayElapsed ==
    /\ gen.pc = "batchDelay"
    /\ gen' = [gen EXCEPT !.pc = "batchLoop", !.i = @ + gen.batchSize]
    /\ UNCHANGED genLog
    /\ UNCHANGED notGen

\* i >= allChunks.length: return {chunks: allChunks, embeddings}
Finish ==
    /\ gen.pc = "batchLoop"
    /\ gen.i >= Len(gen.allChunks)
    /\ gen' = [pc |-> "done", batchSize |-> gen.batchSize,
               maxRetries |-> gen.maxRetries, retryDelay |-> gen.retryDelay,
               documents |-> gen.documents,
               result |-> [chunks |-> gen.allChunks, embeddings |-> gen.embeddings]]
    /\ UNCHANGED genLog
    /\ UNCHANGED notGen

\* the constructor takes any numbers: the configurations above, and a
\* generator with batchSize 0
GenFairInit ==
    /\ \E c \in GeneratorConfigs
                \cup {[batchSize |-> 0, maxRetries |-> 1, retryDelay |-> 10]} :
          gen = [pc |-> "ready", batchSize |-> c.batchSize,
                 maxRetries |-> c.maxRetries, retryDelay |-> c.retryDelay]
    /\ genLog = <<>>
    /\ objects = Off /\ keys = Off /\ last = Off
    /\ hnsw = Off /\ hLast = Off
    /\ val = Off
    /\ idb = Off /\ task = Off
    /\ cacheInstance = Off /\ currentModel = Off /\ eLast = Off
    /\ cos = Off /\ meta = Off
    /\ chunked = Off /\ pending = Off

GenNext ==
    \/ \E documents \in DocumentLists : GenerateEmbeddings(documents)
    \/ NextBatch
    \/ NextChunk
    \/ \E outcome \in ModelOutcomes : CallModel(outcome)
    \/ RetryDelayElapsed
    \/ Fallback
    \/ EndBatch
    \/ BatchDelayElapsed
    \/ Finish

-----------------------------------------------------------------------------
(* Claims about generateEmbeddings *)

\* the calls of genLog made for chunk c
CallsFor(c) ==
    {p \in 1..Len(genLog) : genLog[p].type = "call" /\ genLog[p].chunk = c}

\* a call that threw or returned an empty vector
FailedCall(p) == genLog[p].outcome = "throw" \/ genLog[p].value = <<>>

FailedCallsFor(c) == {p \in CallsFor(c) : FailedCall(p)}

GoodCallsFor(c) == {p \in CallsFor(c) : ~FailedCall(p)}

RECURSIVE CountChunks(_)
CountChunks(documents) ==
    IF documents = <<>> THEN 0
    ELSE Len(Head(documents).chunks) + CountChunks(Tail(documents))

\* C4: for every list of documents, every batch size >= 1 and every pattern
\* of embedding-model failures, generateEmbeddings returns a result whose
\* chunks are the input chunks in input order and whose embeddings list has
\* the same length, embeddings[i] being the vector obtained for chunks[i]
\* (a vector a model call for that chunk returned, or the fallback); for the
\* empty input it returns {chunks: [], embeddings: []}; and the call is never
\* left without a next step before it returns.
C4_ResultAlignedWithChunks ==
    /\ gen.pc = "done" =>
          /\ Len(gen.result.chunks) = CountChunks(gen.documents)
          /\ \A i \in 1..Len(gen.result.chunks) : gen.result.chunks[i] = Chunk(i)
          /\ Len(gen.result.embeddings) = Len(gen.result.chunks)
          /\ \A i \in 1..Len(gen.result.embeddings) :
                \/ \E p \in CallsFor(gen.result.chunks[i].id) :
                      gen.result.embeddings[i] = genLog[p].value
                \/ /\ GoodCallsFor(gen.result.chunks[i].id) = {}
                   /\ gen.result.embeddings[i] = ArrayFill(384, 0)
          /\ (gen.documents = <<>> =>
                gen.result = [chunks |-> <<>>, embeddings |-> <<>>])
    /\ gen.pc \notin {"ready", "done"} => ENABLED GenNext

\* two chunks of two documents were embedded in two batches
C4_Witness ==
    /\ gen.pc = "done"
    /\ Len(gen.documents) = 2
    /\ gen.batchSize = 1
    /\ Len(gen.result.chunks) = 2
    /\ GoodCallsFor(2) # {}
    /\ \E p \in 1..Len(genLog) : genLog[p].type = "call" /\ FailedCall(p)

\* C5: a chunk whose R attempts all fail receives the all-zero vector of
\* length 384 at its own position; every other chunk, of the same batch and
\* of later batches, receives the vector the model returned for it.
C5_FailedChunkGetsZeroVector ==
    gen.pc = "done" =>
        \A i \in 1..Len(gen.result.chunks) :
            LET c == gen.result.chunks[i].id
            IN  /\ (GoodCallsFor(c) = {} /\ Cardinality(FailedCallsFor(c)) = gen.maxRetries)
                   => /\ Len(gen.result.embeddings[i]) = 384
                      /\ \A j \in 1..384 : gen.result.embeddings[i][j] = 0
                /\ \A p \in GoodCallsFor(c) :
                      gen.result.embeddings[i] = genLog[p].value

\* chunk 1 failed both its attempts and holds the zero vector; chunk 2, of
\* the same batch, holds its own vector
C5_Witness ==
    /\ gen.pc = "done"
    /\ gen.batchSize = 2 /\ gen.maxRetries = 2
    /\ Len(gen.result.chunks) = 2
    /\ Cardinality(FailedCallsFor(1)) = 2 /\ GoodCallsFor(1) = {}
    /\ GoodCallsFor(2) # {}
    /\ gen.result.embeddings[1] # gen.result.embeddings[2]

\* C6: for each chunk the embedding model is called at most R times, at
\* attempts 1, 2, ... in turn; the calls stop at the first one that returns a
\* non-empty vector; failed attempt number a < R is followed by a wait of
\* a * retryDelay and then by attempt a + 1; the R-th failure is followed by
\* no wait and no further call for the chunk.
C6_RetryDiscipline ==
    \A p \in 1..Len(genLog) :
        /\ genLog[p].type = "call" =>
              LET a == genLog[p].attempt
                  c == genLog[p].chunk
              IN  /\ a \in 1..gen.maxRetries
                  /\ Cardinality(CallsFor(c)) <= gen.maxRetries
                  /\ a > 1 =>
                        /\ p >= 3
                        /\ genLog[p - 1] = [type |-> "delay", after |-> "attempt",
                                            ms |-> (a - 1) * gen.retryDelay]
                        /\ genLog[p - 2].type = "call" /\ genLog[p - 2].chunk = c
                        /\ genLog[p - 2].attempt = a - 1 /\ FailedCall(p - 2)
                  /\ a = 1 => \A q \in 1..(p - 1) :
                                  ~(genLog[q].type = "call" /\ genLog[q].chunk = c)
                  /\ (FailedCall(p) /\ a < gen.maxRetries) =>
                        /\ p < Len(genLog)
                        /\ genLog[p + 1] = [type |-> "delay", after |-> "attempt",
                                            ms |-> a * gen.retryDelay]
                  /\ (p < Len(genLog) /\ (~FailedCall(p) \/ a = gen.maxRetries)) =>
                        /\ ~(genLog[p + 1].type = "delay"
                             /\ genLog[p + 1].after = "attempt")
                        /\ \A q \in (p + 1)..Len(genLog) :
                              ~(genLog[q].type = "call" /\ genLog[q].chunk = c)
        /\ (genLog[p].type = "delay" /\ genLog[p].after = "attempt") =>
              /\ p >= 2
              /\ genLog[p - 1].type = "call" /\ FailedCall(p - 1)
              /\ genLog[p - 1].attempt < gen.maxRetries

\* with R = 3, a chunk failed twice, waited 1000 and 2000 ms and got its
\* vector at the third attempt; another failed three times
C6_Witness ==
    /\ gen.pc = "done"
    /\ gen.maxRetries = 3
    /\ \E p \in GoodCallsFor(1) : genLog[p].attempt = 3
    /\ Cardinality(FailedCallsFor(2)) = 3

\* the positions of genLog before p that hold the delay after a batch
BatchDelaysBefore(p) ==
    {q \in 1..(p - 1) : genLog[q].type = "delay" /\ genLog[q].after = "batch"}

\* C19: during generateEmbeddings chunks are embedded one at a time in input
\* order: no embedding call for a chunk of batch k+1 starts before every
\* chunk of batch k has its final vector (a returned vector, or maxRetries
\* failed attempts) and the throttling delay that follows batch k has
\* elapsed.
C19_BatchesStrictlySequential ==
    /\ \A p \in 1..Len(genLog) :
          genLog[p].type = "call" =>
              LET c == genLog[p].chunk
                  batchOfC == ((c - 1) \div gen.batchSize) + 1
              IN  /\ \A q \in 1..(p - 1) :
                        genLog[q].type = "call" => genLog[q].chunk <= c
                  /\ \A b \in 1..(c - 1) :
                        \/ \E q \in GoodCallsFor(b) : q < p
                        \/ Cardinality({q \in FailedCallsFor(b) : q < p})
                              = gen.maxRetries
                  /\ Cardinality(BatchDelaysBefore(p)) = batchOfC - 1
    /\ gen.pc = "batchDelay" =>
          /\ genLog # <<>>
          /\ genLog[Len(genLog)].type = "delay"
          /\ genLog[Len(genLog)].after = "batch"

\* two batches of one chunk: chunk 1 failed its only attempt, the delay after
\* batch 1 was waited for, then chunk 2 got its vector
C19_Witness ==
    /\ gen.pc = "done"
    /\ gen.batchSize = 1 /\ gen.maxRetries = 1
    /\ Len(genLog) = 4
    /\ genLog[1].type = "call" /\ genLog[1].chunk = 1 /\ FailedCall(1)
    /\ genLog[2] = [type |-> "delay", after |-> "batch", ms |-> 110]
    /\ genLog[3].type = "call" /\ genLog[3].chunk = 2 /\ ~FailedCall(3)
    /\ genLog[4] = [type |-> "delay", after |-> "batch", ms |-> 120]

\* the batch delays of genLog, in order
BatchDelays == SelectSeq(genLog, LAMBDA e : e.type = "delay" /\ e.after = "batch")

\* C35: generateEmbeddings applies its throttling delay between consecutive
\* batches only (none when no batch follows); the delay after the b-th batch
\* is min(100 + 10*b, 500) ms, so it never exceeds 500 ms and never
\* decreases as b grows.
C35_DelayBetweenBatchesOnly ==
    /\ gen.pc = "batchDelay" => gen.i + gen.batchSize < Len(gen.allChunks)
    /\ \A b \in 1..Len(BatchDelays) :
          /\ BatchDelays[b].ms = Min(100 + 10 * b, 500)
          /\ BatchDelays[b].ms <= 500
          /\ b > 1 => BatchDelays[b - 1].ms <= BatchDelays[b].ms

\* C37: generateEmbeddings terminates for every finite document list and
\* for every batchSize, maxRetries and retryDelay value the constructor
\* accepts, provided each embedding-model call returns or fails in finite
\* time.
C37_GenerateEmbeddingsTerminates ==
    (gen.pc = "batchLoop") ~> (gen.pc = "done")

-----------------------------------------------------------------------------
(* EmbeddingGenerator.validateEmbeddings *)

\* the non-finite numbers, as values no finite number of the model equals
Infinity == 999
NegInfinity == -998

\* mutant of isFinite: only NaN is taken as not finite
isFiniteOrInfinite(value) == value # NaN

\* isFinite(val)
isFinite(value) == value \notin {NaN, Infinity, NegInfinity}

\* const expectedDimensions = 384
expectedDimensions == 384

\* embeddings.filter(pred).length, for the three filters of validateEmbeddings
invalidDimensions(embeddings) ==
    Cardinality({i \in 1..Len(embeddings) : Len(embeddings[i]) # expectedDimensions})

emptyEmbeddings(embeddings) ==
    Cardinality({i \in 1..Len(embeddings) : EveryZero(embeddings[i])})

invalidEmbeddings(embeddings) ==
    Cardinality({i \in 1..Len(embeddings) :
                    \E j \in 1..Len(embeddings[i]) : ~isFinite(embeddings[i][j])})

\* issues.push(message) when the condition holds
PushIf(issues, condition, message) ==
    IF condition THEN Append(issues, message) ELSE issues

validateEmbeddings(embeddingData) ==
    LET embeddings == embeddingData.embeddings
        chunks == embeddingData.chunks
        issues1 == PushIf(<<>>, Len(embeddings) # Len(chunks),
                          "Mismatch: " \o ToString(Len(chunks)) \o " chunks but "
                              \o ToString(Len(embeddings)) \o " embeddings")
        issues2 == PushIf(issues1, invalidDimensions(embeddings) > 0,
                          ToString(invalidDimensions(embeddings))
                              \o " embeddings have incorrect dimensions")
        issues3 == PushIf(issues2, emptyEmbeddings(embeddings) > 0,
                          ToString(emptyEmbeddings(embeddings))
                              \o " embeddings are empty (all zeros)")
        issues == PushIf(issues3, invalidEmbeddings(embeddings) > 0,
                         ToString(invalidEmbeddings(embeddings))
                             \o " embeddings contain invalid values")
    IN  [isValid |-> Len(issues) = 0,
         issues |-> issues,
         stats |-> [totalChunks |-> Len(chunks),
                    successfulEmbeddings |->
                        Len(embeddings) - emptyEmbeddings(embeddings),
                    failedEmbeddings |-> emptyEmbeddings(embeddings),
                    processingTime |-> 0,
                    averageTimePerChunk |-> 0]]

MaxEmbeddings == 2

\* the vectors validateEmbeddings is given: of the expected and of other
\* lengths, of zeros, of ones, with one non-finite entry, with no entry
ValidatedVectors ==
    {ArrayFill(384, 0), ArrayFill(384, 1),
     [ArrayFill(384, 0) EXCEPT ![384] = 1],
     [ArrayFill(384, 1) EXCEPT ![5] = NaN],
     [ArrayFill(384, 1) EXCEPT ![1] = Infinity],
     [ArrayFill(384, 0) EXCEPT ![384] = NegInfinity],
     ArrayFill(100, 1), ArrayFill(100, 0), ArrayFill(385, 1),
     [ArrayFill(100, 0) EXCEPT ![1] = NaN],
     <<>>}

EmbeddingLists ==
    UNION {[1..n -> ValidatedVectors] : n \in 0..MaxEmbeddings}

EmbeddingDatas ==
    {[chunks |-> [k \in 1..n |-> Chunk(k)], embeddings |-> embeddings] :
        n \in 0..MaxChunks, embeddings \in EmbeddingLists}

ValidateInit ==
    /\ val \in {[op |-> "ready", embeddingData |-> data] : data \in EmbeddingDatas}
    /\ objects = Off /\ keys = Off /\ last = Off
    /\ hnsw = Off /\ hLast = Off
    /\ gen = [pc |-> "off"] /\ genLog = <<>>
    /\ idb = Off /\ task = Off
    /\ cacheInstance = Off /\ currentModel = Off /\ eLast = Off
    /\ cos = Off /\ meta = Off
    /\ chunked = Off /\ pending = Off

\* one call validateEmbeddings(embeddingData); the argument is only read
ValidateEmbeddings ==
    /\ val.op = "ready"
    /\ val' = [op |-> "validated",
               argument |-> val.embeddingData,
               embeddingData |-> val.embeddingData,
               result |-> validateEmbeddings(val.embeddingData)]
    /\ UNCHANGED notVal

ValidateNext == ValidateEmbeddings

-----------------------------------------------------------------------------
(* Claims about validateEmbeddings *)

\* the messages an issue list must hold for the given data
MismatchIssue(data) ==
    IF Len(data.chunks) # Len(data.embeddings)
    THEN {"Mismatch: " \o ToString(Len(data.chunks)) \o " chunks but "
             \o ToString(Len(data.embeddings)) \o " embeddings"}
    ELSE {}

CountedIssue(count, text) ==
    IF count > 0 THEN {ToString(count) \o text} ELSE {}

\* C7: validateEmbeddings(data) raises, independently of one another, the
\* count-mismatch issue iff chunks.length != embeddings.length, the dimension
\* issue iff some vector has length != 384, the all-zero issue iff some
\* vector is all zeros (a vector with no entry included), and the
\* invalid-values issue iff some vector contains a non-finite value, each
\* message carrying the number of offending vectors; isValid is true iff the
\* issues list is empty; data is not modified.
C7_ValidateEmbeddingsIssues ==
    val.op = "validated" =>
        LET data == val.argument
            e == data.embeddings
            issues == val.result.issues
            wrongLength == {i \in 1..Len(e) : Len(e[i]) # 384}
            allZero == {i \in 1..Len(e) : \A j \in 1..Len(e[i]) : e[i][j] = 0}
            nonFinite == {i \in 1..Len(e) :
                             \E j \in 1..Len(e[i]) :
                                 e[i][j] \in {NaN, Infinity, NegInfinity}}
            expected ==
                MismatchIssue(data)
                \cup CountedIssue(Cardinality(wrongLength),
                                  " embeddings have incorrect dimensions")
                \cup CountedIssue(Cardinality(allZero),
                                  " embeddings are empty (all zeros)")
                \cup CountedIssue(Cardinality(nonFinite),
                                  " embeddings contain invalid values")
        IN  /\ Range(issues) = expected
            /\ Len(issues) = Cardinality(expected)
            /\ val.result.isValid <=> issues = <<>>
            /\ val.embeddingData = data

\* one chunk and two vectors, one of 100 zeros and one with a NaN entry: the
\* four issues are raised together
C7_Witness ==
    /\ val.op = "validated"
    /\ Len(val.result.issues) = 4
    /\ ~val.result.isValid
    /\ "1 embeddings have incorrect dimensions" \in Range(val.result.issues)
    /\ "Mismatch: 1 chunks but 2 embeddings" \in Range(val.result.issues)

-----------------------------------------------------------------------------
(* src/doc-generator : MetadataGenerator (metadata-generator.ts, held in   *)
(* src/doc-generator/src/__tests__/embedding-generator.test.ts 705-1008)   *)

MaxSnapshots == 2
MaxClock == 2

\* crypto.createHash('sha256').update(...).digest('hex'): a value that
\* differs whenever the hashed data differ
Sha256(data) == <<"sha256", data>>

\* .substring(0, 8) of a digest (taken to tell digests apart as well)
Substring8(digest) == <<"substring(0, 8)", digest>>

\* the options of new MetadataGenerator(options): the defaults, overridden
\* by the keys given
MetadataOptions(options) ==
    [k \in {"includeFileHashes", "includeContentHash", "customVersionPrefix"} |->
        IF k \in DOMAIN options THEN options[k]
        ELSE IF k = "customVersionPrefix" THEN "1.0.0" ELSE TRUE]

\* generateFileHashes: fileHashes[doc.sourceFile] = hash, document after
\* document, so the last document of a source file gives its hash
generateFileHashes(documents) ==
    [f \in {documents[i].sourceFile : i \in 1..Len(documents)} |->
        LET i == CHOOSE i \in 1..Len(documents) :
                    /\ documents[i].sourceFile = f
                    /\ \A j \in (i + 1)..Len(documents) : documents[j].sourceFile # f
        IN  Sha256(<<documents[i].content, documents[i].lastModified>>)]

\* generateContentHash: the hash of the lines sourceFile:content
generateContentHash(documents) ==
    Substring8(Sha256([i \in 1..Len(documents) |->
                          <<documents[i].sourceFile, documents[i].content>>]))

\* generateTimestampHash when Date.now() is now
generateTimestampHash(now) == Substring8(Sha256(<<"Date.now", now>>))

\* generateVersion: `${prefix}-${contentHash}`
generateVersion(options, contentHash) ==
    <<IF options.customVersionPrefix = "" THEN "1.0.0"
      ELSE options.customVersionPrefix, contentHash>>

\* generateMetadata(documents, embeddingData) at the time now
generateMetadata(options, documents, embeddingData, now) ==
    LET fileHashes == IF options.includeFileHashes
                      THEN generateFileHashes(documents) ELSE <<>>
        contentHash == IF options.includeContentHash
                       THEN generateContentHash(documents)
                       ELSE generateTimestampHash(now)
    IN  [version |-> generateVersion(options, contentHash),
         lastGenerated |-> now,
         totalChunks |-> Len(embeddingData.chunks),
         totalDocuments |-> Len(documents),
         fileHashes |-> fileHashes]

\* mutant of compareMetadata: a modified file is reported as a change that
\* keeps the snapshots compatible
compareMetadataLenient(oldMetadata, newMetadata) ==
    LET oldFiles == DOMAIN oldMetadata.fileHashes
        newFiles == DOMAIN newMetadata.fileHashes
        version == oldMetadata.version # newMetadata.version
        documents == oldMetadata.totalDocuments # newMetadata.totalDocuments
        chunks == oldMetadata.totalChunks # newMetadata.totalChunks
        addedFiles == newFiles \ oldFiles
        removedFiles == oldFiles \ newFiles
        modifiedFiles == {file \in oldFiles \cap newFiles :
                             oldMetadata.fileHashes[file] # newMetadata.fileHashes[file]}
    IN  [hasChanges |-> \/ version \/ documents \/ chunks
                        \/ addedFiles # {} \/ removedFiles # {}
                        \/ modifiedFiles # {},
         changes |-> <<>>,
         isCompatible |-> ~(\/ documents \/ chunks
                            \/ addedFiles # {} \/ removedFiles # {})]

\* compareMetadata(oldMetadata, newMetadata); changes holds the kind of each
\* message, in the order the messages are pushed
compareMetadata(oldMetadata, newMetadata) ==
    LET oldFiles == DOMAIN oldMetadata.fileHashes
        newFiles == DOMAIN newMetadata.fileHashes
        version == oldMetadata.version # newMetadata.version
        documents == oldMetadata.totalDocuments # newMetadata.totalDocuments
        chunks == oldMetadata.totalChunks # newMetadata.totalChunks
        addedFiles == newFiles \ oldFiles
        removedFiles == oldFiles \ newFiles
        modifiedFiles == {file \in oldFiles \cap newFiles :
                             oldMetadata.fileHashes[file] # newMetadata.fileHashes[file]}
        c1 == PushIf(<<>>, version, "Version changed")
        c2 == PushIf(c1, documents, "Document count changed")
        c3 == PushIf(c2, chunks, "Chunk count changed")
        c4 == PushIf(c3, addedFiles # {}, "Added files")
        c5 == PushIf(c4, removedFiles # {}, "Removed files")
        c6 == PushIf(c5, modifiedFiles # {}, "Modified files")
    IN  [hasChanges |-> \/ version \/ documents \/ chunks
                        \/ addedFiles # {} \/ removedFiles # {}
                        \/ modifiedFiles # {},
         changes |-> c6,
         isCompatible |-> ~(\/ documents \/ chunks
                            \/ addedFiles # {} \/ removedFiles # {}
                            \/ modifiedFiles # {})]

\* the inputs: generators made with the default options, without the content
\* hash, and without the file hashes
MetadataOptionSets ==
    {<<>>, [includeContentHash |-> FALSE], [includeFileHashes |-> FALSE]}

\* processed documents: a file, the same file with other content, and
\* another file (lastModified is a day number)
MetaDocuments ==
    {[sourceFile |-> "a.md", content |-> "A", lastModified |-> 10],
     [sourceFile |-> "a.md", content |-> "B", lastModified |-> 11],
     [sourceFile |-> "b.md", content |-> "A", lastModified |-> 10]}

MetaDocumentLists ==
    {<<>>} \cup {<<d>> : d \in {r \in MetaDocuments : r.sourceFile = "a.md"}}
    \cup {<<d, e>> \in MetaDocuments \X MetaDocuments :
            d.sourceFile = "a.md" /\ e.sourceFile = "b.md" /\ d.content = "A"}

\* embeddingData, of which generateMetadata reads chunks.length only
MetaEmbeddingDatas == {[chunks |-> [i \in 1..n |-> i]] : n \in 1..2}

MetaInit ==
    /\ \E options \in MetadataOptionSets :
          meta = [options |-> MetadataOptions(options), now |-> 0,
                  snapshots |-> <<>>, last |-> [op |-> "none"]]
    /\ cos = Off
    /\ chunked = Off /\ pending = Off
    /\ objects = Off /\ keys = Off /\ last = Off
    /\ hnsw = Off /\ hLast = Off
    /\ gen = [pc |-> "off"] /\ genLog = <<>>
    /\ val = Off
    /\ idb = Off /\ task = Off
    /\ cacheInstance = Off /\ currentModel = Off /\ eLast = Off

\* time passes between two calls
ClockTick ==
    /\ meta.now < MaxClock
    /\ meta' = [meta EXCEPT !.now = @ + 1]
    /\ UNCHANGED <<cos, notUtil>>

\* generateMetadata(documents, embeddingData): the snapshot is kept with the
\* arguments it was generated from
GenerateMetadata(documents, embeddingData) ==
    /\ Len(meta.snapshots) < MaxSnapshots
    /\ meta' = [meta EXCEPT
                  !.snapshots = Append(@,
                      [metadata |-> generateMetadata(meta.options, documents,
                                                     embeddingData, meta.now),
                       documents |-> documents,
                       embeddingData |-> embeddingData]),
                  !.last = [op |-> "generateMetadata"]]
    /\ UNCHANGED <<cos, notUtil>>

\* compareMetadata on two of the snapshots generated so far
CompareMetadata(i, j) ==
    /\ i \in 1..Len(meta.snapshots)
    /\ j \in 1..Len(meta.snapshots)
    /\ meta' = [meta EXCEPT
                  !.last = [op |-> "compareMetadata",
                            old |-> meta.snapshots[i],
                            new |-> meta.snapshots[j],
                            result |-> compareMetadata(meta.snapshots[i].metadata,
                                                       meta.snapshots[j].metadata)]]
    /\ UNCHANGED <<cos, notUtil>>

MetaNext ==
    \/ ClockTick
    \/ \E documents \in MetaDocumentLists, embeddingData \in MetaEmbeddingDatas :
          GenerateMetadata(documents, embeddingData)
    \/ \E i \in 1..MaxSnapshots, j \in 1..MaxSnapshots : CompareMetadata(i, j)

\* the two snapshots differ in one of the fields the comparison reads for
\* compatibility
CountsOrHashesDiffer(old, new) ==
    \/ old.totalDocuments # new.totalDocuments
    \/ old.totalChunks # new.totalChunks
    \/ DOMAIN old.fileHashes # DOMAIN new.fileHashes
    \/ \E f \in DOMAIN old.fileHashes \cap DOMAIN new.fileHashes :
          old.fileHashes[f] # new.fileHashes[f]

\* the two snapshots were generated from identical documents and embedding
\* data
SameInputs(old, new) ==
    /\ old.documents = new.documents
    /\ old.embeddingData = new.embeddingData

-----------------------------------------------------------------------------
(* src/doc-generator/src/document-processor.ts : createChunks.  A text is   *)
(* held as the pieces that content.split(/[.!?]+/) cuts it into, each piece *)
(* as the number of characters that trim() leaves of it (0 for a piece of   *)
(* white space); a chunk's content is the sequence of the sentences joined  *)
(* into it with '. '.                                                       *)

\* the limit of createChunks
ChunkLimit == 500

MaxSentences == 3

RECURSIVE SumOf(_)
SumOf(lengths) == IF lengths = <<>> THEN 0 ELSE Head(lengths) + SumOf(Tail(lengths))

\* the length of the string made of the sentences joined with '. '
StringLength(sentences) ==
    IF sentences = <<>> THEN 0 ELSE SumOf(sentences) + 2 * (Len(sentences) - 1)

\* createChunkObject(content, title, filePath, chunkIndex): the id is the
\* relative path followed by '-' and chunkIndex
createChunkObject(content, relativePath, chunkIndex) ==
    [id |-> <<relativePath, "-", chunkIndex>>, content |-> content,
     chunkIndex |-> chunkIndex]

\* the for loop of createChunks over the sentences; st holds chunks,
\* currentChunk and chunkIndex
RECURSIVE ChunkLoop(_, _, _)
ChunkLoop(sentences, relativePath, st) ==
    IF sentences = <<>> THEN st
    ELSE LET trimmedSentence == Head(sentences)
         IN  IF trimmedSentence = 0
             THEN ChunkLoop(Tail(sentences), relativePath, st)
             ELSE IF StringLength(st.currentChunk) + trimmedSentence > ChunkLimit
             THEN ChunkLoop(Tail(sentences), relativePath,
                     IF st.currentChunk # <<>>
                     THEN [chunks |-> Append(st.chunks,
                              createChunkObject(st.currentChunk, relativePath,
                                                st.chunkIndex)),
                           currentChunk |-> <<trimmedSentence>>,
                           chunkIndex |-> st.chunkIndex + 1]
                     ELSE [st EXCEPT !.currentChunk = <<trimmedSentence>>])
             ELSE ChunkLoop(Tail(sentences), relativePath,
                     [st EXCEPT !.currentChunk = Append(@, trimmedSentence)])

\* createChunks(content, title, filePath)
createChunks(pieces, relativePath) ==
    LET sentences == SelectSeq(pieces, LAMBDA s : s > 0)
        st == ChunkLoop(sentences, relativePath,
                        [chunks |-> <<>>, currentChunk |-> <<>>, chunkIndex |-> 0])
    IN  IF st.currentChunk # <<>>
        THEN Append(st.chunks,
                    createChunkObject(st.currentChunk, relativePath, st.chunkIndex))
        ELSE st.chunks

\* lengths of the pieces of a text: white space only, short sentences, two
\* that fill a chunk to 499 characters, and one longer than a chunk
PieceLengths == {0, 200, 249, 250, 501}

\* the texts: up to MaxSentences pieces
RECURSIVE PieceLists(_)
PieceLists(n) ==
    IF n = 0 THEN {<<>>}
    ELSE PieceLists(n - 1)
         \cup {Append(t, s) : t \in {u \in PieceLists(n - 1) : Len(u) = n - 1},
                              s \in PieceLengths}

ChunkInit ==
    /\ chunked = [op |-> "none"]
    /\ pending = Off
    /\ objects = Off /\ keys = Off /\ last = Off
    /\ hnsw = Off /\ hLast = Off
    /\ gen = [pc |-> "off"] /\ genLog = <<>>
    /\ val = Off
    /\ idb = Off /\ task = Off
    /\ cacheInstance = Off /\ currentModel = Off /\ eLast = Off
    /\ cos = Off /\ meta = Off

CreateChunks(pieces) ==
    /\ chunked.op = "none"
    /\ chunked' = [op |-> "createChunks", pieces |-> pieces,
                   result |-> createChunks(pieces, "guide/intro")]
    /\ UNCHANGED <<pending, notMore>>

\* the caller takes the chunks
ChunksReturn ==
    /\ chunked.op = "createChunks"
    /\ chunked' = [op |-> "none"]
    /\ UNCHANGED <<pending, notMore>>

ChunkNext ==
    \/ \E pieces \in PieceLists(MaxSentences) : CreateChunks(pieces)
    \/ ChunksReturn

\* C36: for every document text, createChunks produces chunks whose content
\* length is at most 500 characters, with chunkIndex values 0, 1, 2, ... in
\* order and therefore pairwise distinct chunk ids within the document.
C36_ChunksWithinLimit ==
    chunked.op = "createChunks"
    => LET chunks == chunked.result
       IN  /\ \A i \in 1..Len(chunks) :
                 /\ StringLength(chunks[i].content) <= ChunkLimit
                 /\ chunks[i].chunkIndex = i - 1
           /\ \A i, j \in 1..Len(chunks) : i # j => chunks[i].id # chunks[j].id

-----------------------------------------------------------------------------
(* src/indexedDB.ts : IndexedDbManager, and the EmbeddingIndex methods that *)
(* use it.  One call runs at a time; each action is one callback of the     *)
(* call (an IndexedDB event handler together with the promise continuations *)
(* it releases), and each IndexedDB request ends as the browser decides:    *)
(* with a success or with an error event.                                   *)

MaxRecords == 3

\* structuredClone accepts the value: objectStore.add throws DataCloneError
\* for an object that holds a function, here under the key onHit
Cloneable(obj) == "onHit" \notin DOMAIN obj

\* the locals of a call that has just been made
NewTask(call) ==
    [pc |-> "create.open", call |-> call, pre |-> idb.records,
     conn |-> "none", openFailed |-> FALSE, writeFailed |-> FALSE,
     outcome |-> "none", result |-> <<>>,
     queue |-> <<>>, staged |-> 0, handlers |-> FALSE,
     pos |-> 0, at |-> "none", cursorPending |-> FALSE,
     delivered |-> <<>>, results |-> <<>>]

\* the promise of the call is resolved or rejected
Settle(t, outcome, result) ==
    [t EXCEPT !.pc = "settled", !.outcome = outcome, !.result = result]

\* no handler is left that would resolve or reject the promise of the call
NeverSettles(t) == [t EXCEPT !.pc = "pending"]

\* if (!Array.isArray(objs)) objs = [objs]
AsArray(objs) == IF objs.array THEN objs.value ELSE <<objs.value>>

\* the array objs.forEach runs over when the open request of addToIndexedDB
\* has succeeded.  saveToIndexedDB hands over this.objects itself, not a copy:
\* while the index still holds that array (live), its current contents are
\* what is read.
ObjsRead(t) ==
    IF "live" \in DOMAIN t.call.objs /\ t.call.objs.live
    THEN objects
    ELSE AsArray(t.call.objs)

\* what the caller of IndexedDbManager.create does with the instance
AfterCreate(t) ==
    CASE t.call.name = "create" -> Settle(t, "resolved", <<>>)
      [] t.call.name \in {"saveToIndexedDB", "addToIndexedDB"} ->
            [t EXCEPT !.pc = "add.open"]
      [] t.call.name = "deleteIndexedDBObjectStore" ->
            [t EXCEPT !.pc = "del.open"]
      [] OTHER -> [t EXCEPT !.pc = "gen.open"]

\* the requests objs.forEach queues before objectStore.add throws, if it does
RECURSIVE QueuedBeforeThrow(_)
QueuedBeforeThrow(objs) ==
    IF objs = <<>> \/ ~Cloneable(Head(objs)) THEN <<>>
    ELSE <<Head(objs)>> \o QueuedBeforeThrow(Tail(objs))

\* mutant of SearchStep: the filter is not applied to the streamed record
SearchStepUnfiltered(results, record, queryEmbedding, filter) ==
    IF CosineThrows(queryEmbedding, record.embedding)
    THEN [threw |-> TRUE, results |-> results]
    ELSE [threw |-> FALSE,
          results |-> Append(results,
                             [similarity |-> cosineSimilarity(queryEmbedding,
                                                              record.embedding),
                              object |-> record])]

\* the body of for await (const record of generator) in
\* loadAndSearchFromIndexedDB: the results after the record, or a throw
SearchStep(results, record, queryEmbedding, filter) ==
    IF ~MatchesFilter(record, filter)
    THEN [threw |-> FALSE, results |-> results]
    ELSE IF CosineThrows(queryEmbedding, record.embedding)
    THEN [threw |-> TRUE, results |-> results]
    ELSE [threw |-> FALSE,
          results |-> Append(results,
                             [similarity |-> cosineSimilarity(queryEmbedding,
                                                              record.embedding),
                              object |-> record])]

\* the consumer of the generator is a for await loop with a synchronous body
SyncConsumer(t) ==
    t.call.name \in {"loadAndSearchFromIndexedDB", "getAllObjectsFromIndexedDB"}

\* what the for await loop makes of the end of the generator
GeneratorDone(t) ==
    CASE t.call.name = "loadAndSearchFromIndexedDB" ->
            Settle(t, "resolved",
                   Slice0(SortDesc(t.results), TopKOf(t.call.options)))
      [] t.call.name = "getAllObjectsFromIndexedDB" ->
            Settle(t, "resolved", t.delivered)
      [] OTHER -> Settle(t, "resolved", <<>>)

\* the generator yields value: a for await loop runs its body and asks for
\* the next record at once; another consumer is left holding the value
Yield(t, value) ==
    LET got == [t EXCEPT !.delivered = Append(@, value)]
    IN  CASE t.call.name = "loadAndSearchFromIndexedDB" ->
                LET step == SearchStep(t.results, value, t.call.queryEmbedding,
                                       FilterOf(t.call.options))
                IN  IF step.threw
                    THEN Settle([got EXCEPT !.at = "returned"], "rejected", <<>>)
                    ELSE [got EXCEPT !.results = step.results, !.at = "await"]
          [] t.call.name = "getAllObjectsFromIndexedDB" ->
                [got EXCEPT !.at = "await"]
          [] OTHER -> [got EXCEPT !.at = "yield"]

\* the calls made on the model
StoreObjects ==
    {[id |-> 1, embedding |-> <<3, 4>>],
     [id |-> 1, embedding |-> <<5, 12>>],
     [id |-> 2, embedding |-> <<0, 0>>],
     [id |-> 1, embedding |-> <<3, 4>>, tag |-> 7],
     [id |-> 2, embedding |-> <<5>>],
     [id |-> 2, embedding |-> <<4, 3>>, onHit |-> 1]}

StoreInitialLists ==
    {<<>>} \cup {<<o>> : o \in StoreObjects}
    \cup {<<o, p>> : o \in {r \in StoreObjects : r.id = 1}, p \in StoreObjects}

StoreQueries == {<<3, 4>>, <<4, -3>>, <<0, 0>>}

StoreCalls ==
    {[name |-> n] : n \in {"create", "getAllObjectsFromIndexedDB", "dbGenerator",
                           "deleteIndexedDBObjectStore"}}
    \cup {[name |-> "addToIndexedDB", objs |-> [array |-> FALSE, value |-> o]] :
             o \in {r \in StoreObjects : r.id = 1}}
    \cup {[name |-> "loadAndSearchFromIndexedDB", queryEmbedding |-> q,
           options |-> o] : q \in StoreQueries, o \in SearchOptions}

StoreInit ==
    /\ \E initialObjects \in StoreInitialLists :
          LET r == Constructor(initialObjects)
          IN  /\ ~r.threw
              /\ objects = r.objects
              /\ keys = r.keys
    /\ last = Off
    /\ idb = [exists |-> FALSE, records |-> <<>>]
    /\ task = [pc |-> "idle"]
    /\ hnsw = Off /\ hLast = Off
    /\ gen = [pc |-> "off"] /\ genLog = <<>>
    /\ val = Off
    /\ cacheInstance = Off /\ currentModel = Off /\ eLast = Off
    /\ cos = Off /\ meta = Off
    /\ chunked = Off /\ pending = Off

StoreUnchanged ==
    UNCHANGED <<objects, keys, last, hnVars, genVars, valVars, embVars, utilVars, moreVars>>

\* a call of IndexedDbManager or of one of the EmbeddingIndex methods built
\* on it; each starts with IndexedDbManager.create
Call(call) ==
    /\ task.pc = "idle"
    /\ call.name = "addToIndexedDB" => Len(idb.records) < MaxRecords
    /\ task' = NewTask(call)
    /\ UNCHANGED idb
    /\ StoreUnchanged

\* saveIndex("indexedDB") -> saveToIndexedDB: an empty index is refused
\* before the database is touched
SaveToIndexedDB ==
    /\ task.pc = "idle"
    /\ Len(idb.records) + Len(objects) <= MaxRecords
    /\ LET t == NewTask([name |-> "saveToIndexedDB",
                         objs |-> [array |-> TRUE, value |-> objects,
                                   live |-> TRUE]])
       IN  task' = IF objects = <<>> THEN Settle(t, "rejected", <<>>) ELSE t
    /\ UNCHANGED idb
    /\ StoreUnchanged

\* the caller has seen the outcome (or has given up waiting for it)
TaskReturn ==
    /\ task.pc \in {"settled", "pending"}
    /\ task' = [pc |-> "idle"]
    /\ UNCHANGED idb
    /\ StoreUnchanged

\* IndexedDbManager.create: request.onerror / request.onsuccess
CreateOpened(ok) ==
    /\ task.pc = "create.open"
    /\ task' = IF ~ok
               THEN Settle([task EXCEPT !.openFailed = TRUE], "rejected", <<>>)
               ELSE IF idb.exists THEN AfterCreate(task)
               ELSE [task EXCEPT !.pc = "cos.open"]
    /\ UNCHANGED idb
    /\ StoreUnchanged

\* createObjectStore: request.onerror / request.onsuccess.  The rejection
\* surfaces inside the async onsuccess handler of create, which has no catch:
\* the promise create returned is neither resolved nor rejected.
CreateStoreOpened(ok) ==
    /\ task.pc = "cos.open"
    /\ task' = IF ok THEN [task EXCEPT !.pc = "cos.upgrade"]
               ELSE NeverSettles([task EXCEPT !.openFailed = TRUE])
    /\ UNCHANGED idb
    /\ StoreUnchanged

\* createObjectStore: request_2.onerror, or request_2.onupgradeneeded
\* followed by request_2.onsuccess
CreateStoreUpgraded(ok) ==
    /\ task.pc = "cos.upgrade"
    /\ IF ok
       THEN /\ idb' = [idb EXCEPT !.exists = TRUE]
            /\ task' = AfterCreate(task)
       ELSE /\ idb' = idb
            /\ task' = NeverSettles([task EXCEPT !.openFailed = TRUE])
    /\ StoreUnchanged

\* addToIndexedDB: the open request ends.  No onerror handler is set on it.
\* In onsuccess the records are queued with objectStore.add; the handlers of
\* the transaction are set after the loop, and then db.close() is called.
AddOpened(ok) ==
    /\ task.pc = "add.open"
    /\ task' =
          IF ~ok THEN NeverSettles([task EXCEPT !.openFailed = TRUE])
          ELSE IF ~idb.exists THEN NeverSettles([task EXCEPT !.conn = "open"])
          ELSE LET objs == ObjsRead(task)
                   queued == QueuedBeforeThrow(objs)
               IN  IF queued = objs
                   THEN [task EXCEPT !.pc = "add.requests", !.queue = objs,
                                     !.handlers = TRUE, !.conn = "closed"]
                   ELSE [task EXCEPT !.pc = "add.requests", !.queue = queued,
                                     !.handlers = FALSE, !.conn = "open",
                                     !.writeFailed = TRUE]
    /\ UNCHANGED idb
    /\ StoreUnchanged

\* one add request ends.  On an error request2.onerror throws, the
\* transaction is aborted and its onerror handler, if set, rejects.
AddRequestDone(ok) ==
    /\ task.pc = "add.requests"
    /\ task.staged < Len(task.queue)
    /\ task' =
          IF ok THEN [task EXCEPT !.staged = @ + 1]
          ELSE IF task.handlers
          THEN Settle([task EXCEPT !.writeFailed = TRUE], "rejected", <<>>)
          ELSE NeverSettles([task EXCEPT !.writeFailed = TRUE])
    /\ UNCHANGED idb
    /\ StoreUnchanged

\* every queued request has succeeded: the transaction commits and its
\* oncomplete handler, if set, resolves
AddCommitted ==
    /\ task.pc = "add.requests"
    /\ task.staged = Len(task.queue)
    /\ idb' = [idb EXCEPT !.records = @ \o task.queue]
    /\ task' = IF task.handlers THEN Settle(task, "resolved", <<>>)
               ELSE NeverSettles(task)
    /\ StoreUnchanged

\* dbGenerator: the open request ends.  A rejection of dbOpenPromise, and a
\* throw of db.transaction, are caught and logged: the generator just ends.
GeneratorOpened(ok) ==
    /\ task.pc = "gen.open"
    /\ task' =
          IF ~ok THEN GeneratorDone([task EXCEPT !.openFailed = TRUE])
          ELSE IF ~idb.exists THEN GeneratorDone([task EXCEPT !.conn = "open"])
          ELSE [task EXCEPT !.pc = "gen.loop", !.conn = "open", !.pos = 1,
                            !.at = "await", !.cursorPending = TRUE]
    /\ UNCHANGED idb
    /\ StoreUnchanged

\* dbGenerator: request.onsuccess of the cursor.  promiseResolver settles the
\* promise the generator awaits, when it awaits one; it is the resolver of
\* an already settled promise while the generator is suspended at yield.
\* cursor.continue() is called in either case.
CursorSuccess ==
    /\ task.pc = "gen.loop"
    /\ task.cursorPending
    /\ LET more == task.pos <= Len(idb.records)
           moved == IF more THEN [task EXCEPT !.pos = @ + 1]
                    ELSE [task EXCEPT !.cursorPending = FALSE]
       IN  task' =
              IF task.at # "await" THEN moved
              ELSE IF more THEN Yield(moved, idb.records[task.pos])
              ELSE GeneratorDone([moved EXCEPT !.conn = "closed", !.at = "done"])
    /\ UNCHANGED idb
    /\ StoreUnchanged

\* the consumer that holds a record asks for the next one: the generator makes
\* a new promise and awaits it
ConsumerNext ==
    /\ task.pc = "gen.loop"
    /\ task.at = "yield"
    /\ task' = IF task.cursorPending THEN [task EXCEPT !.at = "await"]
               ELSE NeverSettles([task EXCEPT !.at = "await"])
    /\ UNCHANGED idb
    /\ StoreUnchanged

\* the consumer that holds a record leaves its loop (break, return, throw):
\* generator.return() ends the generator at its yield
ConsumerStop ==
    /\ task.pc = "gen.loop"
    /\ task.at = "yield"
    /\ task' = Settle([task EXCEPT !.at = "returned"], "resolved", <<>>)
    /\ UNCHANGED idb
    /\ StoreUnchanged

\* deleteIndexedDBObjectStoreFromDB: request.onerror / request.onsuccess
DeleteOpened(ok) ==
    /\ task.pc = "del.open"
    /\ task' = IF ok THEN [task EXCEPT !.pc = "del.upgrade"]
               ELSE Settle([task EXCEPT !.openFailed = TRUE], "rejected", <<>>)
    /\ UNCHANGED idb
    /\ StoreUnchanged

\* deleteIndexedDBObjectStoreFromDB: request_2.onerror (which reads
\* request_2.result, undefined after an error, and throws on db2.close()
\* before it reaches reject), or request_2.onupgradeneeded and onsuccess
DeleteUpgraded(ok) ==
    /\ task.pc = "del.upgrade"
    /\ IF ~ok
       THEN /\ idb' = idb
            /\ task' = NeverSettles([task EXCEPT !.openFailed = TRUE])
       ELSE IF idb.exists
       THEN /\ idb' = [exists |-> FALSE, records |-> <<>>]
            /\ task' = Settle(task, "resolved", <<>>)
       ELSE /\ idb' = idb
            /\ task' = Settle(task, "rejected", <<>>)
    /\ StoreUnchanged

StoreNext ==
    \/ \E call \in StoreCalls : Call(call)
    \/ SaveToIndexedDB
    \/ TaskReturn
    \/ \E ok \in BOOLEAN : CreateOpened(ok)
    \/ \E ok \in BOOLEAN : CreateStoreOpened(ok)
    \/ \E ok \in BOOLEAN : CreateStoreUpgraded(ok)
    \/ \E ok \in BOOLEAN : AddOpened(ok)
    \/ \E ok \in BOOLEAN : AddRequestDone(ok)
    \/ AddCommitted
    \/ \E ok \in BOOLEAN : GeneratorOpened(ok)
    \/ CursorSuccess
    \/ ConsumerNext
    \/ ConsumerStop
    \/ \E ok \in BOOLEAN : DeleteOpened(ok)
    \/ \E ok \in BOOLEAN : DeleteUpgraded(ok)

-----------------------------------------------------------------------------
(* Claims about IndexedDbManager and the durable store *)

\* the call in progress iterates with dbGenerator and its cursor was opened
Iterating ==
    /\ task.pc \in {"gen.loop", "settled", "pending"}
    /\ task.call.name \in {"dbGenerator", "getAllObjectsFromIndexedDB",
                           "loadAndSearchFromIndexedDB"}
    /\ task.pos >= 1

\* C12: for a collection holding r1..rn, one iteration of dbGenerator()
\* delivers r1..rn to the consumer, each exactly once and in stored order,
\* and then completes, whatever the consumer does between receiving one
\* record and requesting the next.
C12_GeneratorDeliversEachRecordOnce ==
    Iterating =>
        /\ task.delivered = SubSeq(idb.records, 1, Len(task.delivered))
        /\ task.pc # "pending"
        /\ task.at = "done" => task.delivered = idb.records

\* C13: every connection opened by an iteration of dbGenerator() is closed
\* when that iteration ends, both when the cursor is exhausted and when the
\* consumer stops early.
C13_GeneratorClosesConnection ==
    (/\ task.pc = "settled"
     /\ task.call.name \in {"dbGenerator", "getAllObjectsFromIndexedDB",
                            "loadAndSearchFromIndexedDB"}
     /\ task.conn # "none")
    => task.conn = "closed"

\* C14: when opening the database or creating the collection fails, the
\* operation reports an error to its caller: it neither stays pending for
\* ever nor completes as if the collection were empty.
C14_OpenFailureIsReported ==
    (task.pc \in {"settled", "pending"} /\ task.openFailed)
    => (task.pc = "settled" /\ task.outcome = "rejected")

\* C15: addToIndexedDB(objs) commits either all the given records or none;
\* if the write of any single record fails, no record of that call is in
\* the collection afterwards and the call reports failure; a single object
\* is stored as a one-record array.
C15_AddIsAllOrNothing ==
    (/\ task.pc \in {"settled", "pending"}
     /\ task.call.name \in {"addToIndexedDB", "saveToIndexedDB"}
     /\ ~task.openFailed
     /\ task.call.objs.value # <<>>)
    => LET given == IF task.call.objs.array THEN task.call.objs.value
                    ELSE <<task.call.objs.value>>
       IN  /\ idb.records \in {task.pre, task.pre \o given}
           /\ task.writeFailed =>
                 /\ idb.records = task.pre
                 /\ task.pc = "settled" /\ task.outcome = "rejected"
           /\ ~task.writeFailed =>
                 /\ idb.records = task.pre \o given
                 /\ task.pc = "settled" /\ task.outcome = "resolved"

\* C16: after an index is saved into an initially empty collection,
\* search(q, {topK, filter, useStorage: "indexedDB"}) returns the same list
\* of {similarity, object} pairs as the in-memory search(q, {topK, filter}),
\* for every q, topK and filter (and throws when the in-memory search throws).
C16_StorageSearchEqualsMemorySearch ==
    (/\ task.pc \in {"settled", "pending"}
     /\ task.call.name = "loadAndSearchFromIndexedDB"
     /\ ~task.openFailed
     /\ objects # <<>>
     /\ idb.records = objects)
    => LET memory == search(objects, task.call.queryEmbedding, task.call.options)
       IN  /\ task.pc = "settled"
           /\ memory.threw => task.outcome = "rejected"
           /\ ~memory.threw =>
                 (task.outcome = "resolved" /\ task.result = memory.result)

\* a saved index of two records was searched in the store with a filter and
\* a topK below the number of matches
C16_Witness ==
    /\ task.pc = "settled"
    /\ task.call.name = "loadAndSearchFromIndexedDB"
    /\ ~task.openFailed
    /\ idb.records = objects
    /\ Len(objects) = 2
    /\ DOMAIN task.call.options = {"topK", "filter"}
    /\ task.call.options.topK = 1
    /\ Len(task.results) = 2
    /\ task.results[1].similarity < task.results[2].similarity
    /\ Len(task.result) = 1

\* C17: saving an index that holds the same chunk ids a second time leaves
\* the collection with the contents it had after the first save.
C17_SecondSaveIsIdempotent ==
    (/\ task.pc = "settled"
     /\ task.call.name = "saveToIndexedDB"
     /\ task.outcome = "resolved"
     /\ task.pre = objects)
    => idb.records = task.pre

-----------------------------------------------------------------------------
(* src/index.ts : getEmbedding, with the cache of src/cache.ts *)

\* the default precision of getEmbedding; numbers it returns are held in
\* units of 10^-7
EmbeddingPrecision == 7

\* the default model
GteSmall == "Xenova/gte-small"

\* what the feature-extraction pipeline of a model computes for a text with
\* the given options: some vector that depends on each of the three
PipeOutput(text, options, model) ==
    LET shift == (IF text = "a" THEN 0 ELSE 1)
                 + (IF model = GteSmall THEN 0 ELSE 2)
        den == IF options.normalize THEN 7 ELSE 3
    IN  <<Rat(1 + shift, den), Rat(6 + shift, den)>>

\* parseFloat(value.toFixed(precision))
RoundedOutput(output, precision) ==
    [i \in 1..Len(output) |->
        ToFixed(output[i].num, output[i].den, precision)
            * Pow10(EmbeddingPrecision - precision)]

\* cacheInstance.get(text): the entry, or undefined (here <<>>)
CacheGet(cache, text) == IF text \in DOMAIN cache THEN cache[text] ELSE <<>>

\* cacheInstance.set(text, roundedOutput)
CacheSet(cache, text, value) ==
    [t \in DOMAIN cache \cup {text} |-> IF t = text THEN value ELSE cache[t]]

\* getEmbedding(text, precision, options, model) on the state (cache, model
\* of the pipeline): what it returns and the state it leaves
getEmbedding(cache, current, text, precision, options, model) ==
    LET cachedEmbedding == CacheGet(cache, text)
    IN  IF cachedEmbedding # <<>>
        THEN [result |-> cachedEmbedding, cache |-> cache,
              currentModel |-> current, hit |-> TRUE]
        ELSE LET roundedOutput ==
                     RoundedOutput(PipeOutput(text, options, model), precision)
             IN  [result |-> roundedOutput,
                  cache |-> CacheSet(cache, text, roundedOutput),
                  currentModel |-> model, hit |-> FALSE]

\* the empty cache
EmptyCache == [t \in {} |-> <<>>]

Texts == {"a", "b"}
Precisions == {EmbeddingPrecision, 1}
PipeOptions == {[pooling |-> "mean", normalize |-> n] : n \in BOOLEAN}
Models == {GteSmall, "Xenova/all-MiniLM-L6-v2"}

EmbedInit ==
    /\ cacheInstance = EmptyCache
    /\ currentModel = "undefined"
    /\ eLast = [op |-> "none"]
    /\ objects = Off /\ keys = Off /\ last = Off
    /\ hnsw = Off /\ hLast = Off
    /\ gen = [pc |-> "off"] /\ genLog = <<>>
    /\ val = Off
    /\ idb = Off /\ task = Off
    /\ cos = Off /\ meta = Off
    /\ chunked = Off /\ pending = Off

GetEmbedding(text, precision, options, model) ==
    /\ eLast.op = "none"
    /\ LET r == getEmbedding(cacheInstance, currentModel, text, precision,
                             options, model)
       IN  /\ cacheInstance' = r.cache
           /\ currentModel' = r.currentModel
           /\ eLast' = [op |-> "getEmbedding", text |-> text,
                        precision |-> precision, options |-> options,
                        model |-> model, pre |-> currentModel,
                        hit |-> r.hit, result |-> r.result]
    /\ UNCHANGED notEmb

\* the caller takes the vector
EmbeddingReturn ==
    /\ eLast.op # "none"
    /\ eLast' = [op |-> "none"]
    /\ UNCHANGED <<cacheInstance, currentModel>>
    /\ UNCHANGED notEmb

\* the LRU cache drops an entry (its age has passed maxAge)
CacheExpire(text) ==
    /\ eLast.op = "none"
    /\ text \in DOMAIN cacheInstance
    /\ cacheInstance' = [t \in DOMAIN cacheInstance \ {text} |-> cacheInstance[t]]
    /\ UNCHANGED <<currentModel, eLast>>
    /\ UNCHANGED notEmb

EmbedNext ==
    \/ \E text \in Texts, precision \in Precisions, options \in PipeOptions,
          model \in Models : GetEmbedding(text, precision, options, model)
    \/ EmbeddingReturn
    \/ \E text \in Texts : CacheExpire(text)

-----------------------------------------------------------------------------
(* Claims about getEmbedding *)

\* C18: for every sequence of getEmbedding calls, the vector a call with
\* arguments (text, precision, options, model) returns equals the vector the
\* same call would return with an empty cache: a cache hit never changes a
\* result.
C18_CacheHitNeverChangesResult ==
    eLast.op = "getEmbedding" =>
        eLast.result =
            getEmbedding(EmptyCache, eLast.pre, eLast.text, eLast.precision,
                         eLast.options, eLast.model).result

-----------------------------------------------------------------------------
(* getEmbedding as the async function it is: several calls are in flight,   *)
(* and each action is what one call runs between two awaits.  pipe and      *)
(* currentModel are assigned in one continuation, so currentModel also      *)
(* names the model of pipe.                                                  *)

MaxCalls == 2

\* the variables that the calls in flight leave alone, besides those of
\* the cache and the pipeline
notEmbAsync == <<ixVars, hnVars, genVars, valVars, dbVars, utilVars>>

\* the default options of getEmbedding
DefaultOptions == [pooling |-> "mean", normalize |-> FALSE]

\* pending with call c moved on
Moved(c, call) == [pending EXCEPT ![c] = call]

\* pipe(text, options) is called on the pipeline that pipe holds now
CallsPipe(call) == [call EXCEPT !.pc = "pipe", !.used = currentModel]

\* getEmbedding(text, 7, options, model) up to its first await: a cache hit
\* returns; otherwise initializeModel(model) starts and waits for the import,
\* or, when model is currentModel, the pipeline is called at once
StartEmbedding(text, model) ==
    /\ Len(pending) < MaxCalls
    /\ LET cachedEmbedding == CacheGet(cacheInstance, text)
           call == [pc |-> "start", text |-> text, model |-> model,
                    used |-> "none", hit |-> FALSE, result |-> <<>>]
       IN  pending' = Append(pending,
              IF cachedEmbedding # <<>>
              THEN [call EXCEPT !.pc = "done", !.hit = TRUE,
                                !.result = cachedEmbedding]
              ELSE IF model # currentModel
              THEN [call EXCEPT !.pc = "import"]
              ELSE CallsPipe(call))
    /\ UNCHANGED <<cacheInstance, currentModel, eLast, chunked, notEmbAsync>>

\* await import("@xenova/transformers") is over: pipeline("feature-extraction",
\* model) is called and awaited
ImportLoaded(c) ==
    /\ c \in 1..Len(pending)
    /\ pending[c].pc = "import"
    /\ pending' = Moved(c, [pending[c] EXCEPT !.pc = "pipeline"])
    /\ UNCHANGED <<cacheInstance, currentModel, eLast, chunked, notEmbAsync>>

\* await pipeline(...) is over: pipe = ...; currentModel = model; and
\* initializeModel returns, which releases the await of getEmbedding
PipelineLoaded(c) ==
    /\ c \in 1..Len(pending)
    /\ pending[c].pc = "pipeline"
    /\ currentModel' = pending[c].model
    /\ pending' = Moved(c, [pending[c] EXCEPT !.pc = "initialized"])
    /\ UNCHANGED <<cacheInstance, eLast, chunked, notEmbAsync>>

\* the continuation of await initializeModel(model): pipe(text, options),
\* on the pipeline that pipe holds when the continuation runs
ModelInitialized(c) ==
    /\ c \in 1..Len(pending)
    /\ pending[c].pc = "initialized"
    /\ pending' = Moved(c, CallsPipe(pending[c]))
    /\ UNCHANGED <<cacheInstance, currentModel, eLast, chunked, notEmbAsync>>

\* await pipe(text, options) is over: round, cache and return the output of
\* the pipeline that was called
PipeReturned(c) ==
    /\ c \in 1..Len(pending)
    /\ pending[c].pc = "pipe"
    /\ LET roundedOutput ==
               RoundedOutput(PipeOutput(pending[c].text, DefaultOptions,
                                        pending[c].used), EmbeddingPrecision)
       IN  /\ cacheInstance' = CacheSet(cacheInstance, pending[c].text, roundedOutput)
           /\ pending' = Moved(c, [pending[c] EXCEPT !.pc = "done",
                                                     !.result = roundedOutput])
    /\ UNCHANGED <<currentModel, eLast, chunked, notEmbAsync>>

EmbedAsyncInit ==
    /\ cacheInstance = EmptyCache
    /\ currentModel = "undefined"
    /\ eLast = Off
    /\ pending = <<>>
    /\ chunked = Off
    /\ objects = Off /\ keys = Off /\ last = Off
    /\ hnsw = Off /\ hLast = Off
    /\ gen = [pc |-> "off"] /\ genLog = <<>>
    /\ val = Off
    /\ idb = Off /\ task = Off
    /\ cos = Off /\ meta = Off

EmbedAsyncNext ==
    \/ \E text \in Texts, model \in Models : StartEmbedding(text, model)
    \/ \E c \in 1..MaxCalls :
          \/ ImportLoaded(c)
          \/ PipelineLoaded(c)
          \/ ModelInitialized(c)
          \/ PipeReturned(c)

\* C38: when several getEmbedding calls are in flight at the same time with
\* different model names, each call's vector is computed by the pipeline of
\* the model named in that call: the shared pipe/currentModel variables are
\* never swapped by another call between a call's model initialization and
\* its use of the pipeline.
C38_EachCallUsesItsModel ==
    \A c \in 1..Len(pending) :
        /\ pending[c].used # "none" => pending[c].used = pending[c].model
        /\ pending[c].pc = "initialized" => currentModel = pending[c].model

-----------------------------------------------------------------------------
(* EmbeddingIndex together with its durable collection: the synchronous    *)
(* calls of the index run between the callbacks of the storage call in     *)
(* progress                                                                 *)

SyncObjects ==
    {[id |-> 1, embedding |-> <<3, 4>>], [id |-> 2, embedding |-> <<5, 12>>]}

SyncFilters == {[id |-> 1], [id |-> 2]}

SyncCalls ==
    {[name |-> "deleteIndexedDBObjectStore"],
     [name |-> "loadAndSearchFromIndexedDB", queryEmbedding |-> <<3, 4>>,
      options |-> [topK |-> 1]]}

SyncInit ==
    /\ \E initialObjects \in {<<>>} \cup {<<o>> : o \in SyncObjects} :
          LET r == Constructor(initialObjects)
          IN  /\ objects = r.objects
              /\ keys = r.keys
              /\ last = [op |-> "constructor", initialObjects |-> initialObjects]
    /\ idb = [exists |-> FALSE, records |-> <<>>]
    /\ task = [pc |-> "idle"]
    /\ hnsw = Off /\ hLast = Off
    /\ gen = [pc |-> "off"] /\ genLog = <<>>
    /\ val = Off
    /\ cacheInstance = Off /\ currentModel = Off /\ eLast = Off
    /\ cos = Off /\ meta = Off
    /\ chunked = Off /\ pending = Off

\* addToIndexedDB has been called with this.objects and has not read it yet
ArrayHandedOver ==
    /\ task.pc = "add.open"
    /\ "live" \in DOMAIN task.call.objs
    /\ task.call.objs.live

\* a save is in progress and has not read the array yet
SavePending ==
    /\ task.pc \in {"create.open", "cos.open", "cos.upgrade", "add.open"}
    /\ task.call.name = "saveToIndexedDB"

\* mutant of SyncClear: clear() empties the durable collection as well
SyncClearDurable ==
    /\ Idle
    /\ objects' = <<>>
    /\ keys' = keys
    /\ last' = [op |-> "clear", pre |-> objects, preKeys |-> keys, threw |-> FALSE]
    /\ idb' = [idb EXCEPT !.records = <<>>]
    /\ UNCHANGED <<task, hnVars, genVars, valVars, embVars, utilVars, moreVars>>

\* clear(): this.objects = [] makes a new array; an array already handed to
\* addToIndexedDB keeps the records it held
SyncClear ==
    IF ArrayHandedOver
    THEN /\ Idle
         /\ objects' = <<>>
         /\ keys' = keys
         /\ last' = [op |-> "clear", pre |-> objects, preKeys |-> keys,
                     threw |-> FALSE]
         /\ task' = [task EXCEPT !.call.objs =
                        [array |-> TRUE, value |-> objects, live |-> FALSE]]
         /\ UNCHANGED <<idb, hnVars, genVars, valVars, embVars, utilVars, moreVars>>
    ELSE Clear

\* add(obj); the number of records a pending save will write stays bounded
SyncAdd(obj) ==
    /\ SavePending => Len(idb.records) + Len(objects) < MaxRecords
    /\ Add(obj)

SyncUpdate(filter, obj) ==
    /\ SavePending => Len(idb.records) + Len(objects) < MaxRecords
    /\ Update(filter, obj)

SyncNext ==
    \/ Return
    \/ \E obj \in SyncObjects : SyncAdd(obj)
    \/ \E filter \in SyncFilters, obj \in SyncObjects : SyncUpdate(filter, obj)
    \/ \E filter \in SyncFilters : Remove(filter)
    \/ \E filter \in SyncFilters : RemoveBatch(<<filter>>)
    \/ SyncClear
    \/ \E call \in SyncCalls : Call(call)
    \/ SaveToIndexedDB
    \/ TaskReturn
    \/ \E ok \in BOOLEAN : CreateOpened(ok)
    \/ \E ok \in BOOLEAN : CreateStoreOpened(ok)
    \/ \E ok \in BOOLEAN : CreateStoreUpgraded(ok)
    \/ \E ok \in BOOLEAN : AddOpened(ok)
    \/ \E ok \in BOOLEAN : AddRequestDone(ok)
    \/ AddCommitted
    \/ \E ok \in BOOLEAN : GeneratorOpened(ok)
    \/ CursorSuccess
    \/ \E ok \in BOOLEAN : DeleteOpened(ok)
    \/ \E ok \in BOOLEAN : DeleteUpgraded(ok)

-----------------------------------------------------------------------------
(* Claim about the index and its durable collection *)

\* C25: add, update, remove, removeBatch and clear never change the durable
\* collection, and a durable-store search never changes the in-memory
\* records: the records of the durable collection change only in a step of
\* saveIndex/saveToIndexedDB or of an explicit delete.  (A step that changes
\* last is a call of the index; the other steps are callbacks of the storage
\* call task.)
C25_IndexAndStoreChangeSeparately ==
    [][/\ last' # last => idb' = idb
       /\ idb'.records # idb.records
          => /\ last' = last
             /\ task.call.name \in {"saveToIndexedDB", "addToIndexedDB",
                                    "deleteIndexedDBObjectStore"}
       /\ (/\ task.pc # "idle"
           /\ task.call.name = "loadAndSearchFromIndexedDB"
           /\ task' # task)
          => (objects' = objects /\ keys' = keys)]_vars

\* the index was saved, then a record was added to it, and a durable-store
\* search has returned the saved record: the two copies differ
C25_Witness ==
    /\ task.pc = "settled"
    /\ task.call.name = "loadAndSearchFromIndexedDB"
    /\ task.outcome = "resolved"
    /\ Len(task.result) = 1
    /\ Len(idb.records) = 1
    /\ Len(objects) = 2
    /\ last.op = "none"

-----------------------------------------------------------------------------
(* Specifications, one per component *)

SpecIndex == IndexInit /\ [][IndexNext]_vars

SpecIndexAU == IndexInit /\ [][IndexNextAU]_vars

SpecHnswDeep == HnswDeepInit /\ [][HnswDeepNext]_vars
SpecHnsw == HnswInit /\ [][HnswNext]_vars

\* every continuation that can run is run: the model call, the delays and
\* the loops all return
SpecChunk == ChunkInit /\ [][ChunkNext]_vars
SpecGenFair == GenFairInit /\ [][GenNext]_vars /\ WF_vars(GenNext)
SpecGen == GenInit /\ [][GenNext]_vars

SpecValidate == ValidateInit /\ [][ValidateNext]_vars

SpecCosine == CosineInit /\ [][CosineNext]_vars

SpecMeta == MetaInit /\ [][MetaNext]_vars

SpecStore == StoreInit /\ [][StoreNext]_vars

SpecSync == SyncInit /\ [][SyncNext]_vars

SpecEmbedAsync == EmbedAsyncInit /\ [][EmbedAsyncNext]_vars
SpecEmbed == EmbedInit /\ [][EmbedNext]_vars

=============================================================================
